---- MODULE Spec2Model ----
(***************************************************************************)
(* A model of frugen's FRU library (fru.c, fru.h): the field codec, the    *)
(* information-area builder and parser, and the file assembler.            *)
(*                                                                         *)
(* Bytes are integers 0..255.  A C string is the sequence of its bytes     *)
(* without the terminating NUL.  An encoded field (fru_field_t) is the     *)
(* sequence <<typelen>> \o payload; the NULL pointer is the empty sequence.*)
(***************************************************************************)
EXTENDS Integers, Sequences, FiniteSets, TLC

(***************************************************************************)
(* Bounds of the model.                                                    *)
(***************************************************************************)
\* every string over Alphabet of at most MaxLen characters is an input
MaxLen == 3
\* patterned strings (LongStr) of every length 1..MaxLong are inputs
MaxLong == 127
\* the longest list of custom fields
MaxCust == 33
\* the longest run of short custom fields behind the long ones
MaxTail == 18

(***************************************************************************)
(* fru.h: constants and macros                                             *)
(***************************************************************************)
TYPE_BINARY == 0
TYPE_BCDPLUS == 1
TYPE_ASCII_6BIT == 2
TYPE_TEXT == 3

LEN_AUTO == 0
\* the explicit text-type length codes (negative values of `len')
LEN_BCDPLUS == -1
LEN_6BITASCII == -2
LEN_TEXT == -3

NULL == <<>>
\* a NULL `data' argument, as opposed to the empty C string <<>>
NullData == <<-1>>

\* uint8_t conversion
U8(x) == x % 256

RECURSIVE BitOr(_, _)
\* a | b on non-negative integers
BitOr(a, b) ==
  IF a = 0 THEN b
  ELSE IF b = 0 THEN a
  ELSE (IF a % 2 = 1 \/ b % 2 = 1 THEN 1 ELSE 0) + 2 * BitOr(a \div 2, b \div 2)

\* (x) & ~__TYPE_BITS_MASK on a non-negative int: bits 6 and 7 cleared, the
\* bits above 7 kept
FRU_FIELDDATALEN(x) == (x \div 256) * 256 + (x % 64)
FRU_MAKETYPE(t) == t * 64
FRU_TYPELEN(t, l) == BitOr(FRU_MAKETYPE(t), FRU_FIELDDATALEN(l))
FRU_TYPE(t) == (t % 256) \div 64
FRU_ISTYPE(t, type) == FRU_TYPE(t) = type
FRU_FIELDSIZE(typelen) == FRU_FIELDDATALEN(typelen) + 1
FRU_FIELDMAXLEN == FRU_FIELDDATALEN(255)
FRU_FIELDMAXARRAY == FRU_FIELDMAXLEN + 1
FRU_6BIT_LENGTH(len) == (len * 3 + 3) \div 4
FRU_6BIT_FULLLENGTH(l6) == (l6 * 4) \div 3
FRU_FIELD_EMPTY == FRU_TYPELEN(TYPE_TEXT, 0)
FRU_FIELD_TERMINATOR == FRU_TYPELEN(TYPE_TEXT, 1)

(***************************************************************************)
(* C strings and buffers                                                   *)
(***************************************************************************)
\* the byte at 0-based index i of a NUL-terminated string or of a calloc'ed
\* buffer: past the stored bytes it is the terminator
ByteAt(s, i) == IF i < Len(s) THEN s[i + 1] ELSE 0

\* strlen: the number of bytes before the first NUL
strlen(s) ==
  IF \E k \in 1..Len(s) : s[k] = 0
  THEN (CHOOSE k \in 1..Len(s) : s[k] = 0 /\ \A j \in 1..(k - 1) : s[j] # 0) - 1
  ELSE Len(s)

\* the C string held by a buffer
CStr(buf) == SubSeq(buf, 1, strlen(buf))

isdigit(c) == 48 <= c /\ c <= 57

Zeros(n) == SubSeq([k \in 1..n |-> 0], 1, n)

RECURSIVE CutLoop(_, _)
CutLoop(s, i) ==
  IF i >= 0 /\ 32 = s[i + 1] THEN CutLoop([s EXCEPT ![i + 1] = 0], i - 1) ELSE s

\* cut_tail: strip trailing spaces of the string held by buffer s
cut_tail(s) == CutLoop(s, strlen(s) - 1)

(***************************************************************************)
(* fru_get_typelen                                                         *)
(***************************************************************************)
\* ScanStep with the control-byte test moved under `if (autodetect)'
ScanStepCtlUnderAutodetect(ad, data, len, i, st) ==
  LET c == ByteAt(data, i) IN
    IF ad /\ c < 32 /\ c # 9 /\ c # 13 /\ c # 10
    THEN [typelen |-> U8(FRU_TYPELEN(TYPE_BINARY, len)), brk |-> TRUE]
    ELSE IF ad /\ st.typelen < FRU_MAKETYPE(TYPE_TEXT) /\ (c > 95 \/ c < 32)
    THEN [typelen |-> U8(FRU_TYPELEN(TYPE_TEXT, len)), brk |-> FALSE]
    ELSE IF ad /\ st.typelen < FRU_MAKETYPE(TYPE_ASCII_6BIT)
               /\ ~isdigit(c) /\ c # 32 /\ c # 45 /\ c # 46
    THEN [typelen |-> U8(FRU_TYPELEN(TYPE_ASCII_6BIT, FRU_6BIT_LENGTH(len))),
          brk |-> FALSE]
    ELSE st

\* the iteration without the test that keeps a text type from being narrowed
\* to 6-bit ASCII
ScanStepNarrows(ad, data, len, i, st) ==
  LET c == ByteAt(data, i) IN
    IF c < 32 /\ c # 9 /\ c # 13 /\ c # 10
    THEN [typelen |-> U8(FRU_TYPELEN(TYPE_BINARY, len)), brk |-> TRUE]
    ELSE IF ad /\ st.typelen < FRU_MAKETYPE(TYPE_TEXT) /\ (c > 95 \/ c < 32)
    THEN [typelen |-> U8(FRU_TYPELEN(TYPE_TEXT, len)), brk |-> FALSE]
    ELSE IF ad /\ ~isdigit(c) /\ c # 32 /\ c # 45 /\ c # 46
    THEN [typelen |-> U8(FRU_TYPELEN(TYPE_ASCII_6BIT, FRU_6BIT_LENGTH(len))),
          brk |-> FALSE]
    ELSE st

\* iteration i of the loop "Go through the data and expand charset as
\* needed"; st is the local typelen and whether the loop was left by break
ScanStep(ad, data, len, i, st) ==
  LET c == ByteAt(data, i) IN
    IF c < 32 /\ c # 9 /\ c # 13 /\ c # 10
    THEN [typelen |-> U8(FRU_TYPELEN(TYPE_BINARY, len)), brk |-> TRUE]
    ELSE IF ad /\ st.typelen < FRU_MAKETYPE(TYPE_TEXT) /\ (c > 95 \/ c < 32)
    THEN [typelen |-> U8(FRU_TYPELEN(TYPE_TEXT, len)), brk |-> FALSE]
    ELSE IF ad /\ st.typelen < FRU_MAKETYPE(TYPE_ASCII_6BIT)
               /\ ~isdigit(c) /\ c # 32 /\ c # 45 /\ c # 46
    THEN [typelen |-> U8(FRU_TYPELEN(TYPE_ASCII_6BIT, FRU_6BIT_LENGTH(len))),
          brk |-> FALSE]
    ELSE st

RECURSIVE ScanLoop(_, _, _, _, _, _)
\* the iterations lo .. hi - 1 of that loop, in order, up to a break (the
\* range is halved to keep the evaluation shallow)
ScanLoop(ad, data, len, lo, hi, st) ==
  IF lo >= hi \/ st.brk THEN st
  ELSE IF hi = lo + 1 THEN ScanStep(ad, data, len, lo, st)
  ELSE LET mid == (lo + hi) \div 2
           left == ScanLoop(ad, data, len, lo, mid, st)
       IN IF left.brk THEN left ELSE ScanLoop(ad, data, len, mid, hi, left)

\* ad is the value of the static `autodetect'
fru_get_typelen(ad, len0, data) ==
  IF data = NullData THEN U8(FRU_FIELD_EMPTY)
  ELSE IF len0 < 0 THEN
    IF len0 = LEN_BCDPLUS
    THEN U8(FRU_TYPELEN(TYPE_BCDPLUS, (strlen(data) + 1) \div 2))
    ELSE IF len0 = LEN_6BITASCII
    THEN U8(FRU_TYPELEN(TYPE_ASCII_6BIT, FRU_6BIT_LENGTH(strlen(data))))
    ELSE IF len0 = LEN_TEXT
    THEN U8(FRU_TYPELEN(TYPE_TEXT, strlen(data)))
    ELSE U8(FRU_FIELD_TERMINATOR)
  ELSE LET len == IF len0 = 0 THEN strlen(data) ELSE len0 IN
    IF len = 0 THEN U8(FRU_FIELD_EMPTY)
    ELSE IF len > FRU_FIELDDATALEN(len) THEN U8(FRU_FIELD_TERMINATOR)
    ELSE IF U8(len0) # 0 THEN U8(FRU_TYPELEN(TYPE_BINARY, len))
    ELSE ScanLoop(ad, data, len, 0, len,
           [typelen |-> IF ad THEN U8(FRU_TYPELEN(TYPE_BCDPLUS, (len + 1) \div 2))
                        ELSE U8(FRU_TYPELEN(TYPE_TEXT, len)),
            brk |-> FALSE]).typelen

(***************************************************************************)
(* fru_encode_6bit, fru_encode_data                                        *)
(***************************************************************************)
\* iteration i of the packing loop; st is i6 and the calloc'ed payload
\* (len6bit bytes and one extra NUL byte)
Enc6Step(s, i, st) ==
  LET byte == i % 4
      c == (ByteAt(s, i) - 32) % 64
      i6 == st.i6
  IN CASE byte = 0 ->
            [i6 |-> i6, out |-> [st.out EXCEPT ![i6 + 1] = c]]
       [] byte = 1 ->
            [i6 |-> i6 + 1,
             out |-> [st.out EXCEPT ![i6 + 1] = BitOr(@, U8((c % 4) * 64)),
                                    ![i6 + 2] = c \div 4]]
       [] byte = 2 ->
            [i6 |-> i6 + 1,
             out |-> [st.out EXCEPT ![i6 + 1] = BitOr(@, U8(c * 16)),
                                    ![i6 + 2] = c \div 16]]
       [] byte = 3 ->
            [i6 |-> i6 + 1,
             out |-> [st.out EXCEPT ![i6 + 1] = BitOr(@, U8(c * 4))]]

RECURSIVE Enc6Loop(_, _, _, _, _)
\* the iterations lo .. hi - 1 of the packing loop, in order, while
\* i6 < len6bit
Enc6Loop(s, len6bit, lo, hi, st) ==
  IF lo >= hi \/ ~(st.i6 < len6bit) THEN st
  ELSE IF hi = lo + 1 THEN Enc6Step(s, lo, st)
  ELSE LET mid == (lo + hi) \div 2
           left == Enc6Loop(s, len6bit, lo, mid, st)
       IN IF ~(left.i6 < len6bit) THEN left
          ELSE Enc6Loop(s, len6bit, mid, hi, left)

fru_encode_6bit(s) ==
  LET len == strlen(s)
      len6bit == FRU_6BIT_LENGTH(len)
  IN IF len6bit > FRU_FIELDDATALEN(len6bit) THEN NULL
     ELSE <<U8(FRU_TYPELEN(TYPE_ASCII_6BIT, len6bit))>>
          \o SubSeq(Enc6Loop(CStr(s), len6bit, 0, len,
                              [i6 |-> 0, out |-> Zeros(len6bit + 1)]).out,
                     1, len6bit)

\* the nibble of one character in the BCD plus packing switch
BcdNibble(ch) ==
  IF ch = 0 \/ ch = 32 THEN 10
  ELSE IF ch = 45 THEN 11
  ELSE IF ch = 46 THEN 12
  ELSE U8(ch - 48)

\* the BCD plus packing loop: byte k (0-based) gets its last value at
\* i = 2k+1, c[0] << 4 | c[1] stored into a uint8_t
BcdPack(data, n) ==
  [k \in 1..n |->
     U8(BitOr(BcdNibble(ByteAt(data, 2 * (k - 1))) * 16,
              BcdNibble(ByteAt(data, 2 * (k - 1) + 1))))]

fru_encode_data(ad, len, data) ==
  LET Encode(typelen) ==
        IF FRU_FIELD_TERMINATOR = typelen THEN NULL
        ELSE IF FRU_ISTYPE(typelen, TYPE_ASCII_6BIT) THEN fru_encode_6bit(data)
        ELSE IF FRU_ISTYPE(typelen, TYPE_BCDPLUS)
        THEN <<typelen>> \o BcdPack(data, FRU_FIELDDATALEN(typelen))
        ELSE <<typelen>>
             \o [k \in 1..FRU_FIELDDATALEN(typelen) |-> ByteAt(data, k - 1)]
  IN Encode(fru_get_typelen(ad, len, data))

(***************************************************************************)
(* fru_decode_6bit, fru_decode_bcdplus, fru_decode_data                    *)
(*                                                                         *)
(* A decoder returns [ok, type, val]: val is the destination buffer        *)
(* (typed_field_t.val), which the callers hand over zeroed.                *)
(***************************************************************************)
FIELD_TYPE_AUTO == "auto"
FIELD_TYPE_BINARY == "binary"
FIELD_TYPE_BCDPLUS == "bcdplus"
FIELD_TYPE_SIXBITASCII == "6bitascii"
FIELD_TYPE_TEXT == "text"

\* field->typelen and field->data[k]
TypelenOf(field) == field[1]
DataAt(field, k) == ByteAt(field, k + 1)

\* the two evaluation orders of `s6[i6] ... | (s6[++i6] ...)': the read of
\* i6 and its increment are unsequenced
EvalOrders == {"read_first", "increment_first"}

\* iteration i of the unpacking loop; st is i6, the destination and whether
\* the loop condition has failed
Dec6Step(field, len6bit, i, st, order) ==
  LET i6 == st.i6
      byte == i % 4
      lhs == IF order = "read_first" THEN i6 ELSE i6 + 1
      put(v) == [st.out EXCEPT ![i + 1] = (U8(v) % 64) + 32]
  IN IF ~(i6 <= len6bit /\ DataAt(field, i6) # 0) THEN [st EXCEPT !.stop = TRUE]
     ELSE CASE byte = 0 ->
                 [i6 |-> i6, stop |-> FALSE,
                  out |-> put(DataAt(field, i6) % 64)]
            [] byte = 1 ->
                 [i6 |-> i6 + 1, stop |-> FALSE,
                  out |-> put(BitOr(DataAt(field, lhs) \div 64,
                                    DataAt(field, i6 + 1) * 4))]
            [] byte = 2 ->
                 [i6 |-> i6 + 1, stop |-> FALSE,
                  out |-> put(BitOr(DataAt(field, lhs) \div 16,
                                    DataAt(field, i6 + 1) * 16))]
            [] byte = 3 ->
                 [i6 |-> i6 + 1, stop |-> FALSE,
                  out |-> put(DataAt(field, i6) \div 4)]

RECURSIVE Dec6Loop(_, _, _, _, _, _)
\* the iterations lo .. hi - 1 of the unpacking loop, in order, while its
\* condition holds
Dec6Loop(field, len6bit, lo, hi, st, order) ==
  IF lo >= hi \/ st.stop THEN st
  ELSE IF hi = lo + 1 THEN Dec6Step(field, len6bit, lo, st, order)
  ELSE LET mid == (lo + hi) \div 2
           left == Dec6Loop(field, len6bit, lo, mid, st, order)
       IN IF left.stop THEN left
          ELSE Dec6Loop(field, len6bit, mid, hi, left, order)

fru_decode_6bit(field, out, out_len, order) ==
  IF field = NULL THEN [ok |-> FALSE, val |-> out]
  ELSE LET len6bit == FRU_FIELDDATALEN(TypelenOf(field))
           len == FRU_6BIT_FULLLENGTH(len6bit)
       IN IF out_len < len + 1 THEN [ok |-> FALSE, val |-> out]
          ELSE [ok |-> TRUE,
                val |-> cut_tail(Dec6Loop(field, len6bit, 0, len,
                                          [i6 |-> 0, stop |-> FALSE, out |-> out],
                                          order).out)]

BcdChar(c) ==
  IF c = 10 THEN 32
  ELSE IF c = 11 THEN 45
  ELSE IF c = 12 THEN 46
  ELSE IF c >= 13 THEN 63
  ELSE c + 48

fru_decode_bcdplus(field, out, out_len) ==
  LET n == FRU_FIELDDATALEN(TypelenOf(field)) IN
  IF out_len < 2 * n + 1 THEN [ok |-> FALSE, val |-> out]
  ELSE [ok |-> TRUE,
        val |-> cut_tail(
          [k \in 1..Len(out) |->
             IF k <= 2 * n
             THEN BcdChar(IF (k - 1) % 2 = 1
                          THEN DataAt(field, (k - 1) \div 2) % 16
                          ELSE DataAt(field, (k - 1) \div 2) \div 16)
             ELSE IF k = 2 * n + 1 THEN 0
             ELSE out[k]])]

fru_decode_data(field, out, out_len, order) ==
  LET Returned(r, type) == [ok |-> r.ok, type |-> type, val |-> r.val] IN
  IF field = NULL THEN [ok |-> FALSE, type |-> FIELD_TYPE_AUTO, val |-> out]
  ELSE IF FRU_ISTYPE(TypelenOf(field), TYPE_ASCII_6BIT)
  THEN Returned(fru_decode_6bit(field, out, out_len, order),
                FIELD_TYPE_SIXBITASCII)
  ELSE IF out_len < FRU_FIELDDATALEN(TypelenOf(field)) + 1
  THEN [ok |-> FALSE, type |-> FIELD_TYPE_AUTO, val |-> out]
  ELSE IF FRU_ISTYPE(TypelenOf(field), TYPE_BCDPLUS)
  THEN Returned(fru_decode_bcdplus(field, out, out_len), FIELD_TYPE_BCDPLUS)
  ELSE LET n == FRU_FIELDDATALEN(TypelenOf(field))
       IN [ok |-> TRUE, type |-> FIELD_TYPE_TEXT,
           val |-> [k \in 1..Len(out) |->
                      IF k <= n THEN DataAt(field, k - 1)
                      ELSE IF k = n + 1 THEN 0
                      ELSE out[k]]]

(***************************************************************************)
(* calc_checksum, fru_create_info_area and the per-area encoders           *)
(***************************************************************************)
FRU_VER_1 == 1
FRU_BLOCK_SZ == 8
FRU_BYTES(blocks) == blocks * FRU_BLOCK_SZ
FRU_BLOCKS(bytes) == (bytes + FRU_BLOCK_SZ - 1) \div FRU_BLOCK_SZ

\* fru_area_type_t
FRU_AREA_NOT_PRESENT == -1
FRU_INTERNAL_USE == 0
FRU_CHASSIS_INFO == 1
FRU_BOARD_INFO == 2
FRU_PRODUCT_INFO == 3
FRU_MULTIRECORD == 4
FRU_MAX_AREAS == 5

FRU_AREA_HAS_DATE(t) == FRU_BOARD_INFO = t
FRU_AREA_HAS_SIZE(t) == FRU_INTERNAL_USE < t /\ t < FRU_MULTIRECORD
FRU_AREA_IS_GENERIC(t) == FRU_AREA_HAS_SIZE(t)

\* sizeof(fru_info_area_t): ver, blocks, langtype
FRU_INFO_AREA_HEADER_SZ == 3
\* sizeof(fru_board_area_t): ver, blocks, langtype, mfgdate[3]
FRU_DATE_AREA_HEADER_SZ == 6
FRU_DATE_UNSPECIFIED == 0

\* fru_datetime_base(): mktime of 1996-01-01 00:00:00, here in a UTC zone
fru_datetime_base == 820454400

RECURSIVE SumRange(_, _, _)
\* the sum of s[lo..hi]
SumRange(s, lo, hi) ==
  IF lo > hi THEN 0
  ELSE IF lo = hi THEN s[lo]
  ELSE LET mid == (lo + hi) \div 2
       IN SumRange(s, lo, mid) + SumRange(s, mid + 1, hi)

\* calc_checksum over the bytes blk (blk_bytes = Len(blk) > 0; with
\* blk_bytes = 0 the function prints and calls exit(1)); data stands for the
\* bytes behind blk, read once
calc_checksum(blk) ==
  CHOOSE checksum \in {U8(0 - U8(SumRange(data, 1, Len(data)))) :
                         data \in {blk}} : TRUE

RECURSIVE ConcatRange(_, _, _)
\* the bytes of the fields fs[lo..hi], one after the other
ConcatRange(fs, lo, hi) ==
  IF lo > hi THEN <<>>
  ELSE IF lo = hi THEN fs[lo]
  ELSE LET mid == (lo + hi) \div 2
       IN ConcatRange(fs, lo, mid) \o ConcatRange(fs, mid + 1, hi)

Concat(fs) == ConcatRange(fs, 1, Len(fs))

\* the nodes before the first node without rec, taken from the last to the
\* first
WalkRecsBackwards(list) ==
  LET ends == {k \in 1..Len(list) : list[k] = NULL}
      n == IF ends = {} THEN Len(list)
           ELSE (CHOOSE k \in ends : \A j \in ends : k <= j) - 1
  IN SubSeq([k \in 1..n |-> list[n + 1 - k]], 1, n)

\* the walk `field && field->rec' of a reclist: it ends at the first node
\* without rec
WalkRecs(list) ==
  LET ends == {k \in 1..Len(list) : list[k] = NULL}
  IN IF ends = {} THEN list
     ELSE SubSeq(list, 1, (CHOOSE k \in ends : \A j \in ends : k <= j) - 1)

\* the bytes fru_field_copy copies for a field
FieldBytes(f) == [k \in 1..FRU_FIELDSIZE(TypelenOf(f)) |-> ByteAt(f, k - 1)]

\* C integer division (truncation toward zero)
CDiv(a, b) == IF a >= 0 THEN a \div b ELSE 0 - ((0 - a) \div b)

\* the three bytes of the uint32_t fru_time that are stored: the conversion
\* to uint32_t is modulo 2^32, of which only the low 24 bits are kept
LOW24(x) == x % 16777216

\* the len argument chosen by the switch on strings[field_count].type;
\* FIELD_TYPE_BINARY is refused with EINVAL
MandatoryField(ad, str) ==
  IF str.type = FIELD_TYPE_BINARY THEN NULL
  ELSE fru_encode_data(ad,
         CASE str.type = FIELD_TYPE_BCDPLUS -> LEN_BCDPLUS
           [] str.type = FIELD_TYPE_SIXBITASCII -> LEN_6BITASCII
           [] str.type = FIELD_TYPE_TEXT -> LEN_TEXT
           [] OTHER -> LEN_AUTO,
         CStr(str.val))

NoArea == [status |-> "null", blocks |-> 0, bytes |-> <<>>, overflow |-> FALSE]

\* tv is <<>> for a NULL pointer and <<tv_sec>> otherwise.  The result is
\*   status "null":  NULL was returned
\*   status "exit":  calc_checksum was entered with a zero length
\*   status "ok":    the buffer of FRU_BYTES(blocks) bytes that is returned;
\*                   overflow tells that bytes were written past its end
fru_create_info_area(ad, atype, langtype, tv, cust, strings) ==
  IF ~FRU_AREA_IS_GENERIC(atype) THEN NoArea
  ELSE IF FRU_AREA_HAS_DATE(atype) /\ tv = <<>> THEN NoArea
  ELSE
    LET fru_time == IF ~FRU_AREA_HAS_DATE(atype) \/ tv[1] = 0
                    THEN FRU_DATE_UNSPECIFIED
                    ELSE LOW24(CDiv(tv[1] - fru_datetime_base, 60))
        headerlen == IF FRU_AREA_HAS_DATE(atype) THEN FRU_DATE_AREA_HEADER_SZ
                     ELSE FRU_INFO_AREA_HEADER_SZ
        \* the calloc'ed buffer of blocks * 8 bytes after the copy, and the
        \* checksum stored in its last byte; written is what is written
        \* from out[0] on, up to the terminator
        Store(blocks, written, filled) ==
          IF blocks = 0
          THEN [status |-> "exit", blocks |-> 0, bytes |-> <<>>,
                overflow |-> TRUE]
          ELSE [status |-> "ok", blocks |-> blocks,
                bytes |-> [filled EXCEPT
                             ![FRU_BYTES(blocks)] = calc_checksum(filled)],
                overflow |-> Len(written) > FRU_BYTES(blocks) - 1]
        Fill(blocks, written) ==
          Store(blocks, written,
                SubSeq(written \o Zeros(FRU_BYTES(blocks)),
                       1, FRU_BYTES(blocks)))
        Copy(blocks, fields) ==
          Fill(blocks,
               SubSeq(<<FRU_VER_1, blocks, langtype,
                        fru_time % 256, (fru_time \div 256) % 256,
                        (fru_time \div 65536) % 256>>, 1, headerlen)
               \o Concat([k \in 1..Len(fields) |-> FieldBytes(fields[k])])
               \o <<FRU_FIELD_TERMINATOR>>)
        Sizes(fields) ==
          [k \in 1..Len(fields) |-> FRU_FIELDSIZE(TypelenOf(fields[k]))]
        Totalsize(fields) ==
          2 + headerlen + SumRange(Sizes(fields), 1, Len(fields))
        Build(mandatory) ==
          IF \E k \in 1..Len(mandatory) : mandatory[k] = NULL THEN NoArea
          ELSE LET All(fields) ==
                     Copy(U8(FRU_BLOCKS(Totalsize(fields))), fields)
               IN All(mandatory \o WalkRecs(cust))
    IN Build([k \in 1..Len(strings) |-> MandatoryField(ad, strings[k])])

\* SMBIOS_CHASSIS_IS_VALID (smbios.h): 1..0x24
SMBIOS_CHASSIS_IS_VALID(t) == 0 < t /\ t <= 36

\* an exploded chassis is [type, pn, serial, cust]
fru_encode_chassis_info(ad, chassis) ==
  IF ~SMBIOS_CHASSIS_IS_VALID(chassis.type) THEN NoArea
  ELSE fru_create_info_area(ad, FRU_CHASSIS_INFO, chassis.type, <<>>,
                            chassis.cust, <<chassis.pn, chassis.serial>>)

\* an exploded board is [lang, tv, mfg, pname, serial, pn, file, cust]
fru_encode_board_info(ad, board) ==
  fru_create_info_area(ad, FRU_BOARD_INFO, board.lang, <<board.tv>>, board.cust,
                       <<board.mfg, board.pname, board.serial, board.pn,
                         board.file>>)

\* an exploded product is [lang, mfg, pname, pn, ver, serial, atag, file, cust]
fru_product_info(ad, product) ==
  fru_create_info_area(ad, FRU_PRODUCT_INFO, product.lang, <<>>, product.cust,
                       <<product.mfg, product.pname, product.pn, product.ver,
                         product.serial, product.atag, product.file>>)

(***************************************************************************)
(* fru_decode_binary, fru_decode_custom_fields and the per-area decoders.  *)
(* An area is read from a byte sequence mem; a read behind its end is      *)
(* reported in the result (oob) and takes the value 0.                     *)
(***************************************************************************)
\* the field a pointer to offset off of mem points at
FieldAt(mem, off) ==
  IF off < Len(mem) THEN SubSeq(mem, off + 1, Len(mem)) ELSE <<0>>

HexChar(c) == IF c > 9 THEN c - 10 + 65 ELSE c + 48

\* overflow: the final out[i * 2 + 1] = '0' lands behind the buffer
fru_decode_binary(field, out, out_len) ==
  LET n == FRU_FIELDDATALEN(TypelenOf(field)) IN
  IF n * 2 + 1 > out_len THEN [ok |-> FALSE, val |-> out, overflow |-> FALSE]
  ELSE [ok |-> TRUE,
        val |-> [k \in 1..Len(out) |->
                   IF k <= 2 * n
                   THEN HexChar(IF (k - 1) % 2 = 1
                                THEN DataAt(field, (k - 1) \div 2) % 16
                                ELSE DataAt(field, (k - 1) \div 2) \div 16)
                   ELSE IF k = 2 * n + 2 THEN 48
                   ELSE out[k]],
        overflow |-> 2 * n + 2 > Len(out)]

\* one iteration of the loop of fru_decode_custom_fields: the rec of the new
\* list node, calloc'ed with FRU_FIELDMAXARRAY bytes (typelen and 63 of data)
CustomRec(field, order) ==
  LET tl == TypelenOf(field)
      length == FRU_FIELDDATALEN(tl)
      zero == Zeros(FRU_FIELDMAXLEN)
      Binary(r) == [typelen |-> tl, data |-> r.val, overflow |-> r.overflow]
  IN CASE FRU_TYPE(tl) = TYPE_BINARY ->
            Binary(fru_decode_binary(field, zero, FRU_FIELDMAXLEN))
       [] FRU_TYPE(tl) = TYPE_ASCII_6BIT ->
            [typelen |-> tl,
             data |-> fru_decode_6bit(field, zero, FRU_FIELDMAXLEN, order).val,
             overflow |-> FALSE]
       [] FRU_TYPE(tl) = TYPE_BCDPLUS ->
            [typelen |-> tl,
             data |-> fru_decode_bcdplus(field, zero, FRU_FIELDMAXLEN).val,
             overflow |-> FALSE]
       [] OTHER ->
            [typelen |-> tl,
             data |-> [k \in 1..FRU_FIELDMAXLEN |->
                         IF k <= length THEN DataAt(field, k - 1) ELSE 0],
             overflow |-> length + 1 > FRU_FIELDMAXLEN]

\* one pass of the while loop; st is the offset of data, the list built so
\* far, whether the terminator was met and whether mem was left
CustomStep(mem, st, order) ==
  IF st.off >= Len(mem) THEN [st EXCEPT !.done = TRUE, !.oob = TRUE]
  ELSE IF ByteAt(mem, st.off) = FRU_FIELD_TERMINATOR
  THEN [st EXCEPT !.done = TRUE]
  ELSE [off |-> st.off + FRU_FIELDDATALEN(ByteAt(mem, st.off)) + 1,
        list |-> Append(st.list, CustomRec(FieldAt(mem, st.off), order)),
        done |-> FALSE, oob |-> FALSE]

RECURSIVE CustomLoop(_, _, _, _)
\* up to n passes of the loop, in order
CustomLoop(mem, st, order, n) ==
  IF n <= 0 \/ st.done THEN st
  ELSE IF n = 1 THEN CustomStep(mem, st, order)
  ELSE LET half == CustomLoop(mem, st, order, n \div 2)
       IN IF half.done THEN half
          ELSE CustomLoop(mem, half, order, n - (n \div 2))

\* the list built from offset off; every pass advances by at least one byte,
\* so that the walk is over after Len(mem) + 1 passes
fru_decode_custom_fields(mem, off, order, reclist) ==
  LET Walked(st) == [list |-> st.list, oob |-> st.oob]
  IN Walked(CustomLoop(mem, [off |-> off, list |-> reclist,
                             done |-> FALSE, oob |-> FALSE],
                       order, Len(mem) + 1))

\* a zero-initialised typed_field_t
NoField == [type |-> FIELD_TYPE_AUTO, val |-> Zeros(FRU_FIELDMAXARRAY)]

RECURSIVE DecodeMandatory(_, _, _, _, _)
\* the chain of fru_decode_data calls on n consecutive fields from offset off,
\* each into its own slot of the zero-initialised exploded structure; the
\* chain ends at the first call that fails
DecodeMandatory(mem, off, n, order, slots) ==
  IF n = 0 THEN [ok |-> TRUE, slots |-> slots, off |-> off, oob |-> FALSE]
  ELSE LET fld == FieldAt(mem, off)
           past == off + FRU_FIELDSIZE(TypelenOf(fld)) > Len(mem)
           \* r is what fru_decode_data returned and left in the slot
           Slot1(r) ==
             LET slot == IF r.ok \/ r.type # FIELD_TYPE_AUTO
                         THEN [type |-> r.type, val |-> r.val] ELSE NoField
             IN IF ~r.ok
                THEN [ok |-> FALSE,
                      slots |-> Append(slots, slot)
                                \o [k \in 1..(n - 1) |-> NoField],
                      off |-> off, oob |-> past]
                ELSE [DecodeMandatory(mem,
                        off + FRU_FIELDSIZE(TypelenOf(fld)), n - 1, order,
                        Append(slots, slot))
                      EXCEPT !.oob = @ \/ past]
       IN Slot1(fru_decode_data(fld, Zeros(FRU_FIELDMAXARRAY),
                                FRU_FIELDMAXARRAY, order))

\* the custom list and the flags of a decoded area
CustomPart(m, mem, order) ==
  IF m.ok THEN fru_decode_custom_fields(mem, m.off, order, <<>>)
  ELSE [list |-> <<>>, oob |-> FALSE]

\* m is the outcome of the mandatory fields, c that of the custom ones
fru_decode_chassis_info(mem, order) ==
  LET Out(m, c) ==
        [ok |-> m.ok, type |-> ByteAt(mem, 2),
         pn |-> m.slots[1], serial |-> m.slots[2],
         cust |-> c.list, oob |-> m.oob \/ c.oob, order |-> order]
      Custom(m) == Out(m, CustomPart(m, mem, order))
  IN Custom(DecodeMandatory(mem, FRU_INFO_AREA_HEADER_SZ, 2, order, <<>>))

fru_decode_board_info(mem, order) ==
  LET min_since_1996 == ByteAt(mem, 3) + 256 * ByteAt(mem, 4)
                        + 65536 * ByteAt(mem, 5)
      Out(m, c) ==
        [ok |-> m.ok, lang |-> ByteAt(mem, 2),
         tv |-> fru_datetime_base + 60 * min_since_1996,
         mfg |-> m.slots[1], pname |-> m.slots[2], serial |-> m.slots[3],
         pn |-> m.slots[4], file |-> m.slots[5],
         cust |-> c.list, oob |-> m.oob \/ c.oob, order |-> order]
      Custom(m) == Out(m, CustomPart(m, mem, order))
  IN Custom(DecodeMandatory(mem, FRU_DATE_AREA_HEADER_SZ, 5, order, <<>>))

fru_decode_product_info(mem, order) ==
  LET Out(m, c) ==
        [ok |-> m.ok, lang |-> ByteAt(mem, 2),
         mfg |-> m.slots[1], pname |-> m.slots[2], pn |-> m.slots[3],
         ver |-> m.slots[4], serial |-> m.slots[5], atag |-> m.slots[6],
         file |-> m.slots[7],
         cust |-> c.list, oob |-> m.oob \/ c.oob, order |-> order]
      Custom(m) == Out(m, CustomPart(m, mem, order))
  IN Custom(DecodeMandatory(mem, FRU_INFO_AREA_HEADER_SZ, 7, order, <<>>))

(***************************************************************************)
(* fru_create, find_fru_header and find_fru_<NAME>_area                    *)
(***************************************************************************)
\* sizeof(fru_t): ver:4/rsvd:4, internal, chassis, board, product, multirec,
\* pad, hchecksum
SIZEOF_FRU_T == 8

FRU_IS_ATYPE_VALID(t) == t >= FRU_AREA_NOT_PRESENT /\ t < FRU_MAX_AREAS

\* area_offsets[atype]: offsetof(fru_t, internal) .. offsetof(fru_t, multirec)
area_offsets(atype) == atype + 1

\* iteration i of the loop "First calculate the total size"; st holds
\* whether EINVAL was returned, fruhdr, totalblocks and the array area[]
OffsetStep(i, st) ==
  LET atype == U8(st.area[i + 1].atype)
      blocks == st.area[i + 1].blocks
      data == st.area[i + 1].data
      offset == area_offsets(atype) + 1
  IN IF ~FRU_IS_ATYPE_VALID(atype)
        \/ (atype # U8(FRU_AREA_NOT_PRESENT) /\ atype # i)
     THEN [st EXCEPT !.einval = TRUE]
     ELSE IF \/ data = NULL
             \/ (~FRU_AREA_HAS_SIZE(atype) /\ blocks = 0)
             \/ ByteAt(data, 1) = 0
     THEN [st EXCEPT !.fruhdr[offset] = 0]
     ELSE LET b == IF blocks = 0 THEN ByteAt(data, 1) ELSE blocks
          IN [st EXCEPT !.fruhdr[offset] = U8(st.totalblocks),
                        !.totalblocks = @ + b,
                        !.area[i + 1].blocks = b]

RECURSIVE OffsetLoop(_, _)
OffsetLoop(i, st) ==
  IF i >= FRU_MAX_AREAS \/ st.einval THEN st
  ELSE OffsetLoop(i + 1, OffsetStep(i, st))

\* iteration i of the loop that copies the areas; st holds the buffer out,
\* whether a copy read or wrote behind a buffer, and whether it read from NULL
CopyStep(area, fruhdr, i, st) ==
  LET atype == U8(area[i + 1].atype)
      blocks == area[i + 1].blocks
      data == area[i + 1].data
      dst == FRU_BYTES(fruhdr[area_offsets(atype) + 1])
      n == FRU_BYTES(blocks)
  IN IF blocks = 0 THEN st
     ELSE IF data = NULL THEN [st EXCEPT !.null_read = TRUE]
     ELSE [st EXCEPT
             !.out = [k \in 1..Len(st.out) |->
                        IF dst < k /\ k <= dst + n THEN ByteAt(data, k - 1 - dst)
                        ELSE st.out[k]],
             !.overflow = @ \/ dst + n > Len(st.out) \/ n > Len(data)]

RECURSIVE CopyLoop(_, _, _, _)
CopyLoop(area, fruhdr, i, st) ==
  IF i >= FRU_MAX_AREAS \/ st.null_read THEN st
  ELSE CopyLoop(area, fruhdr, i + 1, CopyStep(area, fruhdr, i, st))

NoFru == [status |-> "null", size |-> 0, bytes |-> <<>>, overflow |-> FALSE,
          area |-> <<>>]

\* area is the array of five slots [atype, blocks, data], data NULL or the
\* bytes it points at.  The result holds the returned buffer (status "ok"),
\* *size, and the array area[] as the call leaves it; status "crash" is a
\* copy from a NULL data pointer
fru_create(area) ==
  LET first == OffsetLoop(0, [einval |-> FALSE,
                              fruhdr |-> <<FRU_VER_1, 0, 0, 0, 0, 0, 0, 0>>,
                              totalblocks |-> FRU_BLOCKS(SIZEOF_FRU_T),
                              area |-> area])
      fruhdr == [first.fruhdr EXCEPT ![SIZEOF_FRU_T] = calc_checksum(first.fruhdr)]
      out == fruhdr \o Zeros(FRU_BYTES(first.totalblocks) - SIZEOF_FRU_T)
      second == CopyLoop(first.area, fruhdr, 0,
                         [out |-> out, overflow |-> FALSE, null_read |-> FALSE])
  IN IF first.einval THEN [NoFru EXCEPT !.area = first.area]
     ELSE IF second.null_read
     THEN [status |-> "crash", size |-> 0, bytes |-> <<>>, overflow |-> FALSE,
           area |-> first.area]
     ELSE [status |-> "ok", size |-> first.totalblocks, bytes |-> second.out,
           overflow |-> second.overflow, area |-> first.area]

\* the byte at index i of a buffer of Len(buffer) bytes; behind the buffer it
\* is whatever the memory holds there (junk)
Mem(buffer, i, junk) == IF i < Len(buffer) THEN buffer[i + 1] ELSE junk

\* the header tests without the comparison of hchecksum
HeaderWithoutChecksum(buffer, size) ==
  IF size < 8 THEN FALSE
  ELSE ~(buffer[1] % 16 # FRU_VER_1 \/ buffer[1] \div 16 # 0 \/ buffer[7] # 0)

\* TRUE when a header is returned
find_fru_header(buffer, size) ==
  IF size < 8 THEN FALSE
  ELSE IF buffer[1] % 16 # FRU_VER_1 \/ buffer[1] \div 16 # 0 \/ buffer[7] # 0
  THEN FALSE
  ELSE buffer[SIZEOF_FRU_T] = calc_checksum(SubSeq(buffer, 1, SIZEOF_FRU_T - 1))

\* the field of fru_t that NAME names
HeaderField(name) ==
  CASE name = "chassis" -> FRU_CHASSIS_INFO
    [] name = "board" -> FRU_BOARD_INFO
    [] OTHER -> FRU_PRODUCT_INFO

\* the comparison with the checksum taken over FRU_BYTES(blocks) - 2 bytes only
AreaChecksumShort(buffer, at, blocks) ==
  buffer[at + FRU_BYTES(blocks)]
    = calc_checksum(SubSeq(buffer, at + 1, at + FRU_BYTES(blocks) - 2))

\* the last byte of the area at byte offset at equals calc_checksum over the
\* FRU_BYTES(blocks) - 1 bytes before it
AreaChecksum(buffer, at, blocks) ==
  buffer[at + FRU_BYTES(blocks)]
    = calc_checksum(SubSeq(buffer, at + 1, at + FRU_BYTES(blocks) - 1))

NoFound == [name |-> "none", status |-> "null", at |-> 0, blocks |-> 0,
            oob |-> FALSE]

\* find_fru_<NAME>_area(buffer, size) with size = Len(buffer).  status is
\* "null", "ok" (the area at byte offset at is returned) or "crash" (the
\* checksum of an area of 0 blocks runs over (size_t)-1 bytes); oob tells
\* that bytes behind the buffer were read
find_fru_area(name, buffer, size, junk) ==
  LET hdr == buffer[area_offsets(HeaderField(name)) + 1]
      at == FRU_BYTES(hdr)
      ver == Mem(buffer, at, junk)
      blocks == Mem(buffer, at + 1, junk)
      res(st, o) == [name |-> name, status |-> st, at |-> at,
                     blocks |-> blocks, oob |-> o]
  IN IF ~find_fru_header(buffer, size) THEN [NoFound EXCEPT !.name = name]
     ELSE IF hdr = 0 THEN [NoFound EXCEPT !.name = name]
     ELSE IF hdr + 3 > size THEN [NoFound EXCEPT !.name = name]
     ELSE IF ver # 1 THEN res("null", at >= size)
     ELSE IF at + FRU_BYTES(blocks) > size THEN res("null", at + 1 >= size)
     ELSE IF blocks = 0 THEN res("crash", TRUE)
     ELSE IF ~AreaChecksum(buffer, at, blocks) THEN res("null", FALSE)
     ELSE res("ok", FALSE)

(***************************************************************************)
(* Multirecord area: fru_mr_uuid2rec and fru_mr_area                       *)
(***************************************************************************)
FRU_MR_MGMT_ACCESS == 3
FRU_MR_MGMT_SYS_UUID == 7
FRU_MR_EOL == 128
FRU_MR_VER == 2
\* sizeof(fru_mr_header_t): type_id, eol_ver, len, rec_checksum, hdr_checksum
SIZEOF_FRU_MR_HEADER_T == 5
UUID_SIZE == 16
UUID_STRLEN_NONDASHED == UUID_SIZE * 2
UUID_STRLEN_DASHED == UUID_STRLEN_NONDASHED + 4
DASH == 45

isxdigit(c) == isdigit(c) \/ (65 <= c /\ c <= 70) \/ (97 <= c /\ c <= 102)
toupper(c) == IF 97 <= c /\ c <= 122 THEN c - 32 ELSE c

\* val of a hexadecimal digit *str
HexVal(c) == IF toupper(c) < 65 THEN toupper(c) - 48 ELSE toupper(c) - 65 + 10

\* one pass of the loop while(*str) on the character c.  st holds the static
\* i, uuid.raw (16 bytes, uninitialised at entry), whether -EINVAL was
\* returned and whether a byte behind uuid.raw was written; i0 is the value
\* of i when the call began
Uuid2RecStep(c, st, i0) ==
  IF st.fail THEN st
  ELSE IF c = DASH THEN st
  ELSE IF ~isxdigit(c) THEN [st EXCEPT !.fail = TRUE]
  ELSE LET at == st.i \div 2
       IN IF at >= UUID_SIZE
          THEN [st EXCEPT !.i = st.i + 1, !.overflow = TRUE]
          ELSE [st EXCEPT
                  !.i = st.i + 1,
                  !.raw[at + 1] = IF st.i % 2 = 0 THEN HexVal(c) * 16
                                  ELSE BitOr(st.raw[at + 1], HexVal(c))]

RECURSIVE Uuid2RecLoop(_, _, _, _, _)
\* the passes of the loop on str[lo..hi], in order
Uuid2RecLoop(str, lo, hi, st, i0) ==
  IF lo > hi THEN st
  ELSE IF lo = hi THEN Uuid2RecStep(str[lo], st, i0)
  ELSE LET mid == (lo + hi) \div 2
           left == Uuid2RecLoop(str, lo, mid, st, i0)
       IN IF left.fail THEN left ELSE Uuid2RecLoop(str, mid + 1, hi, left, i0)

\* uuid.raw left in the order of the text
UuidTextOrder(raw) == raw

\* uuid.raw after htole32(be32toh(time_low)), htole16(be16toh(time_mid)) and
\* htole16(be16toh(time_hi_and_version)): on a host of either byte order one
\* of the two conversions is the identity and the other swaps the bytes
UuidLittleEndian(raw) ==
  <<raw[4], raw[3], raw[2], raw[1], raw[6], raw[5], raw[8], raw[7]>>
    \o SubSeq(raw, 9, UUID_SIZE)

\* the record with both checksums set: hdr, subtype, data
MgmtRec(data) ==
  LET payload == <<FRU_MR_MGMT_SYS_UUID>> \o data
      rec_checksum == calc_checksum(payload)
      hdr == <<FRU_MR_MGMT_ACCESS, FRU_MR_VER, UUID_SIZE + 1, rec_checksum>>
  IN hdr \o <<calc_checksum(hdr)>> \o payload

\* fru_mr_uuid2rec(rec, str) with *rec = NULL at entry; i is the static i at
\* entry, junk the value of the uninitialised bytes of uuid.  status is
\* "einval" (rec is NULL then) or "ok"; overflow tells that bytes behind
\* uuid.raw were written
fru_mr_uuid2rec(i, str, junk) ==
  LET len == Len(str)
      st0 == [i |-> i,
              raw |-> SubSeq([k \in 1..UUID_SIZE |-> junk], 1, UUID_SIZE),
              fail |-> FALSE, overflow |-> FALSE]
      st == Uuid2RecLoop(str, 1, len, st0, i)
  IN IF UUID_STRLEN_DASHED # len /\ UUID_STRLEN_NONDASHED # len
     THEN [status |-> "einval", i |-> i, rec |-> NULL, overflow |-> FALSE]
     ELSE IF st.fail
     THEN [status |-> "einval", i |-> st.i, rec |-> NULL,
           overflow |-> st.overflow]
     ELSE [status |-> "ok", i |-> st.i, rec |-> MgmtRec(UuidLittleEndian(st.raw)),
           overflow |-> st.overflow]

\* hdr.len of a record
MrLen(rec) == rec[3]

RECURSIVE MrWalk(_, _)
\* the nodes from node k on that the walk `listitem && listitem->rec &&
\* listitem->rec->hdr.len' visits
MrWalk(reclist, k) ==
  IF k > Len(reclist) THEN <<>>
  ELSE IF reclist[k] = NULL THEN <<>>
  ELSE IF MrLen(reclist[k]) = 0 THEN <<>>
  ELSE <<k>> \o MrWalk(reclist, k + 1)

\* the record of node k as the copy loop leaves it in the area, without the
\* header checksum taken anew for the last node
MrCopyKeepChecksum(reclist, k) ==
  LET rec == SubSeq(reclist[k], 1, SIZEOF_FRU_MR_HEADER_T + MrLen(reclist[k]))
  IN IF k # Len(reclist) THEN rec
     ELSE [rec EXCEPT ![2] = BitOr(rec[2], FRU_MR_EOL)]

\* the record of node k as the copy loop leaves it in the area: the node
\* without next gets FRU_MR_EOL and a new header checksum
MrCopy(reclist, k) ==
  LET rec == SubSeq(reclist[k], 1, SIZEOF_FRU_MR_HEADER_T + MrLen(reclist[k]))
      eol == [rec EXCEPT ![2] = BitOr(rec[2], FRU_MR_EOL)]
  IN IF k # Len(reclist) THEN rec
     ELSE [eol EXCEPT ![SIZEOF_FRU_MR_HEADER_T] =
                        calc_checksum(SubSeq(eol, 1, SIZEOF_FRU_MR_HEADER_T - 1))]

NoMrArea == [status |-> "none", total |-> 0, bytes |-> <<>>]

\* fru_mr_area(reclist, total) with *total = total0 at entry; reclist is the
\* sequence of the nodes' rec, NULL or the bytes of the record.  status is
\* "ok" or "null": calloc of 0 bytes may return NULL (calloc_null)
fru_mr_area(reclist, total0, calloc_null) ==
  LET walk == MrWalk(reclist, 1)
      sizes == [n \in 1..Len(walk) |->
                  SIZEOF_FRU_MR_HEADER_T + MrLen(reclist[walk[n]])]
      total == total0 + SumRange(sizes, 1, Len(walk))
  IN IF total = 0 /\ calloc_null
     THEN [status |-> "null", total |-> 0, bytes |-> <<>>]
     ELSE [status |-> "ok", total |-> total,
           bytes |-> Concat([n \in 1..Len(walk) |-> MrCopy(reclist, walk[n])])
                       \o Zeros(total0)]

(***************************************************************************)
(* The state: the static `autodetect' of fru.c; for the field codec the    *)
(* arguments and results of the last fru_encode_data and fru_decode_data   *)
(* calls; for the area builder the exploded structure, the area built from *)
(* it and the structure decoded from that area; for the container the      *)
(* array of area slots, the buffer fru_create built, the buffer a reader   *)
(* holds and the result of the last area lookup in it.                     *)
(***************************************************************************)
VARIABLES
  op,          \* the operation that ran last
  autodetect,  \* static bool autodetect
  in_len,      \* fru_encode_data: argument len
  in_data,     \* fru_encode_data: argument data
  typelen,     \* fru_encode_data: the local typelen
  field,       \* the field fru_encode_data returned, or NULL
  decoded,     \* the result of fru_decode_data, the destination buffer, and
               \* the evaluation order the build took
  exploded,    \* the area type and the fru_exploded_<area>_t to encode
  area,        \* the result of fru_encode_<area>_info / fru_<area>_info
  parsed,      \* the result of fru_decode_<area>_info on that area
  areas,       \* fru_area_t area[FRU_MAX_AREAS], the argument of fru_create
  fru,         \* the result of fru_create: the buffer and *size
  buffer,      \* the bytes a reader holds (frugen.c: the file read into memory)
  tampered,    \* the byte of buffer that was changed since it was built
  found,       \* the result of the last find_fru_<area>_area(buffer, size)
  uuid_i,      \* static size_t i of fru_mr_uuid2rec
  mr_reclist,  \* the multirecord list: the rec of every node, in order
  mr_call,     \* the last fru_mr_uuid2rec call: str, i at entry, the result
  mr_area,     \* the result of fru_mr_area on the list
  cli,         \* frugen.c, main: the command line, the position of getopt in
               \* it, the locals of main and the board date handed on
  rd           \* fru_reader.c, safe_read: the arguments and locals, and the
               \* file behind fd

codecVars == <<in_len, in_data, typelen, field, decoded>>
areaVars == <<exploded, area, parsed>>
fileVars == <<areas, fru, buffer, tampered, found>>
mrVars == <<uuid_i, mr_reclist, mr_call, mr_area>>
toolVars == <<cli, rd>>

NoDecode == [ok |-> FALSE, type |-> "none", val |-> <<>>, order |-> "none"]
NoExploded == [atype |-> FRU_AREA_NOT_PRESENT]
NoParse == [ok |-> FALSE, order |-> "none"]
NoTamper == [name |-> "none", pos |-> -1, old |-> 0, new |-> 0]
NoCall == [str |-> <<>>, i |-> 0, junk |-> 0, status |-> "none", rec |-> NULL,
           overflow |-> FALSE]

CodecIdle ==
  /\ in_len = 0
  /\ in_data = <<>>
  /\ typelen = 0
  /\ field = NULL
  /\ decoded = NoDecode

AreaIdle ==
  /\ exploded = NoExploded
  /\ area = NoArea
  /\ parsed = NoParse

FileIdle ==
  /\ areas = <<>>
  /\ fru = NoFru
  /\ buffer = <<>>
  /\ tampered = NoTamper
  /\ found = NoFound

MrIdle ==
  /\ uuid_i = 0
  /\ mr_reclist = <<>>
  /\ mr_call = NoCall
  /\ mr_area = NoMrArea

NoCli == [pc |-> "none"]
NoRead == [pc |-> "none"]

CliIdle == cli = NoCli

ReadIdle == rd = NoRead

(***************************************************************************)
(* Inputs                                                                  *)
(***************************************************************************)
\* 0x1F, tab, space, '0', 'A', '`'
Alphabet == {31, 9, 32, 48, 65, 96}

RECURSIVE StringsUpTo(_)
StringsUpTo(n) ==
  IF n = 0 THEN {<<>>}
  ELSE LET shorter == StringsUpTo(n - 1)
       IN shorter \cup {Append(s, c) : s \in {t \in shorter : Len(t) = n - 1},
                                      c \in Alphabet}

PatternKinds == {"bcd", "sixbit", "text", "ctl_first", "ctl_last"}

\* "0123456789 -."
BcdChars == <<48, 49, 50, 51, 52, 53, 54, 55, 56, 57, 32, 45, 46>>

\* a string of n characters of one class: BCD plus characters, characters
\* of 0x20..0x5F, printable characters; the ctl kinds hold one 0x01 byte
LongStr(kind, n) ==
  [i \in 1..n |->
     CASE kind = "bcd" -> BcdChars[(i % 13) + 1]
       [] kind = "sixbit" -> 32 + ((i * 7) % 64)
       [] kind = "text" -> IF i = 1 THEN 97 ELSE 32 + ((i * 11) % 95)
       [] kind = "ctl_first" -> IF i = 1 THEN 1 ELSE BcdChars[(i % 13) + 1]
       [] kind = "ctl_last" -> IF i = n THEN 1 ELSE 32 + ((i * 11) % 95)]

InputStrings ==
  StringsUpTo(MaxLen) \cup {LongStr(k, n) : k \in PatternKinds, n \in 1..MaxLong}
    \cup {NullData}

\* the length arguments the callers pass: LEN_AUTO, the explicit text types,
\* an unknown negative code, and the byte count of a binary buffer
LenArgs(data) ==
  {LEN_AUTO, LEN_BCDPLUS, LEN_6BITASCII, LEN_TEXT, LEN_TEXT - 1}
    \cup (IF Len(data) > 0 THEN {Len(data)} ELSE {})

(***************************************************************************)
(* Operations of the field codec.  The arguments of fru_encode_data are    *)
(* drawn in the initial state.                                             *)
(***************************************************************************)
Init ==
  /\ op = "init"
  /\ autodetect = TRUE
  /\ in_data \in InputStrings
  /\ in_len \in LenArgs(in_data)
  /\ typelen = 0
  /\ field = NULL
  /\ decoded = NoDecode
  /\ AreaIdle
  /\ FileIdle
  /\ MrIdle
  /\ CliIdle
  /\ ReadIdle

\* void fru_set_autodetect(bool enable)
SetAutodetect ==
  \E enable \in BOOLEAN :
    /\ autodetect' = enable
    /\ op' = "init"
    /\ typelen' = 0
    /\ field' = NULL
    /\ decoded' = NoDecode
    /\ area' = NoArea
    /\ parsed' = NoParse
    /\ UNCHANGED <<in_len, in_data, exploded>>
    /\ UNCHANGED <<fileVars, mrVars, toolVars>>

\* fru_field_t *fru_encode_data(int len, const uint8_t *data)
EncodeData ==
  /\ typelen' = fru_get_typelen(autodetect, in_len, in_data)
  /\ field' = fru_encode_data(autodetect, in_len, in_data)
  /\ decoded' = NoDecode
  /\ op' = "encode"
  /\ UNCHANGED <<autodetect, in_len, in_data>>
  /\ UNCHANGED <<areaVars, fileVars, mrVars, toolVars>>

\* bool fru_decode_data(fru_field_t *field, typed_field_t *out, size_t out_len)
\* on the field just encoded, into a zeroed mandatory-field slot
DecodeData ==
  /\ op = "encode"
  /\ \E order \in IF field # NULL /\ FRU_ISTYPE(TypelenOf(field), TYPE_ASCII_6BIT)
                  THEN EvalOrders ELSE {"read_first"} :
       LET r == fru_decode_data(field, Zeros(FRU_FIELDMAXARRAY),
                                FRU_FIELDMAXARRAY, order)
       IN decoded' = [ok |-> r.ok, type |-> r.type, val |-> r.val, order |-> order]
  /\ op' = "decode"
  /\ UNCHANGED <<autodetect, in_len, in_data, typelen, field>>
  /\ UNCHANGED <<areaVars, fileVars, mrVars, toolVars>>

Next == SetAutodetect \/ EncodeData \/ DecodeData

vars == <<op, autodetect, in_len, in_data, typelen, field, decoded,
          exploded, area, parsed, areas, fru, buffer, tampered, found,
          uuid_i, mr_reclist, mr_call, mr_area, cli, rd>>

Spec == Init /\ [][Next]_vars

(***************************************************************************)
(* Properties of the field codec                                           *)
(***************************************************************************)
BcdPlusSet == (48..57) \cup {32, 45, 46}
SixBitSet == 32..95

AllIn(s, S) == \A i \in 1..Len(s) : s[i] \in S

\* a byte below 0x20 other than tab, CR or LF
HasControlByte(s) == \E i \in 1..Len(s) : s[i] < 32 /\ s[i] \notin {9, 13, 10}

\* s without its trailing spaces
StripTrailing(s) ==
  LET keep == {k \in 0..Len(s) : \A j \in (k + 1)..Len(s) : s[j] = 32}
  IN SubSeq(s, 1, CHOOSE k \in keep : \A m \in keep : k <= m)

CeilDiv(a, b) == (a + b - 1) \div b

\* C5: with autodetection on and LEN_AUTO, every non-empty string of digits,
\* space, dash and dot of length n <= 126 gets the type/length byte
\* BCDPlus with payload length ceil(n/2).
C5_BcdPlusUpTo126 ==
  (/\ op = "encode" /\ autodetect /\ in_len = LEN_AUTO
   /\ Len(in_data) \in 1..126 /\ AllIn(in_data, BcdPlusSet))
  => typelen = FRU_MAKETYPE(TYPE_BCDPLUS) + CeilDiv(Len(in_data), 2)

\* C6: every string of digits, space, dash and dot that
\* fru_encode_data(LEN_AUTO, s) encodes as a BCDPlus field decodes, into a
\* 64-byte slot, successfully and to s without its trailing spaces.
C6_BcdPlusRoundTrip ==
  (/\ op = "decode" /\ in_len = LEN_AUTO /\ in_data # <<>>
   /\ AllIn(in_data, BcdPlusSet)
   /\ field # NULL /\ FRU_ISTYPE(TypelenOf(field), TYPE_BCDPLUS))
  => /\ decoded.ok
     /\ CStr(decoded.val) = StripTrailing(in_data)

\* C7: with autodetection on and LEN_AUTO, every string over 0x20..0x5F that
\* holds a character other than digit, space, dash, dot and whose length n
\* is <= 84 gets the type/length byte SixBitASCII with payload length
\* ceil(3n/4).
C7_SixBitUpTo84 ==
  (/\ op = "encode" /\ autodetect /\ in_len = LEN_AUTO
   /\ Len(in_data) \in 1..84 /\ AllIn(in_data, SixBitSet)
   /\ ~AllIn(in_data, BcdPlusSet))
  => typelen = FRU_MAKETYPE(TYPE_ASCII_6BIT) + CeilDiv(3 * Len(in_data), 4)

\* C8: every string over 0x20..0x5F that the encoder encodes as a
\* SixBitASCII field decodes, into a 64-byte slot, successfully and to s
\* without its trailing spaces (stated for the build that reads s6[i6]
\* before it increments i6, as the code intends).
C8_SixBitRoundTrip ==
  (/\ op = "decode" /\ in_len = LEN_AUTO /\ AllIn(in_data, SixBitSet)
   /\ field # NULL /\ FRU_ISTYPE(TypelenOf(field), TYPE_ASCII_6BIT)
   /\ decoded.order = "read_first")
  => /\ decoded.ok
     /\ CStr(decoded.val) = StripTrailing(in_data)

Typed(type, str) ==
  [type |-> type, val |-> str \o Zeros(FRU_FIELDMAXARRAY - Len(str))]

Auto(str) == Typed(FIELD_TYPE_AUTO, str)

FieldTypes == {FIELD_TYPE_AUTO, FIELD_TYPE_BINARY, FIELD_TYPE_BCDPLUS,
               FIELD_TYPE_SIXBITASCII, FIELD_TYPE_TEXT}

\* "", "A 0", "ab"
ShortStrings == {<<>>, <<65, 32, 48>>, <<97, 98>>}

FieldKinds == {"bcd", "sixbit", "text"}

\* 1996-01-01 00:02:05 UTC
SomeDate == fru_datetime_base + 125

\* 2027-11-24 20:17:30 UTC, 2^24 + 1 minutes after the epoch of the format
LateDate == fru_datetime_base + 60 * 16777217 + 30

\* tv_sec: unspecified, the epoch of the format, within its third minute,
\* a minute before the epoch, 2^24 + 1 minutes after it
Dates == {0, fru_datetime_base, SomeDate, fru_datetime_base - 60, LateDate}

LANG_DEFAULT == 0
LANG_ENGLISH == 25

\* pre-encoded custom fields: 63 binary bytes, text "hi", 6-bit "IPMI",
\* BCD plus "12"
BinaryField == <<63>> \o [k \in 1..63 |-> 170]
TextField == <<194, 104, 105>>
\* binary fields of 2 and of 31 bytes
ShortBinary == <<2, 31, 160>>
HalfBinary == <<31>> \o SubSeq([k \in 1..31 |-> 160 + k], 1, 31)
CustTemplates == {BinaryField, TextField, <<131, 41, 220, 166>>, <<65, 18>>,
                  ShortBinary, HalfBinary}

Copies(f, n) == [k \in 1..n |-> f]

Chassis(type, strs, cust) ==
  [atype |-> FRU_CHASSIS_INFO, type |-> type,
   pn |-> strs[1], serial |-> strs[2], cust |-> cust]

Board(lang, tv, strs, cust) ==
  [atype |-> FRU_BOARD_INFO, lang |-> lang, tv |-> tv,
   mfg |-> strs[1], pname |-> strs[2], serial |-> strs[3], pn |-> strs[4],
   file |-> strs[5], cust |-> cust]

Product(lang, strs, cust) ==
  [atype |-> FRU_PRODUCT_INFO, lang |-> lang,
   mfg |-> strs[1], pname |-> strs[2], pn |-> strs[3], ver |-> strs[4],
   serial |-> strs[5], atag |-> strs[6], file |-> strs[7], cust |-> cust]

\* an area of the given type with n empty mandatory strings
Sparse(atype, tv, cust) ==
  CASE atype = FRU_CHASSIS_INFO ->
         Chassis(1, [k \in 1..2 |-> Auto(<<>>)], cust)
    [] atype = FRU_BOARD_INFO ->
         Board(LANG_ENGLISH, tv, [k \in 1..5 |-> Auto(<<>>)], cust)
    [] OTHER ->
         Product(LANG_ENGLISH, [k \in 1..7 |-> Auto(<<>>)], cust)

GenericAreas == {FRU_CHASSIS_INFO, FRU_BOARD_INFO, FRU_PRODUCT_INFO}

\* boards of five short strings
ShortBoards ==
  {Board(LANG_ENGLISH, SomeDate, [k \in 1..5 |-> Auto(strs[k])], <<>>) :
     strs \in [1..5 -> ShortStrings]}

\* boards with one string of up to FRU_FIELDMAXLEN characters, in the first
\* slot or (the longest) in the last
LongBoard(slot, kind, n) ==
  Board(LANG_ENGLISH, SomeDate,
        [k \in 1..5 |-> Auto(IF k = slot THEN LongStr(kind, n) ELSE <<97, 98>>)],
        <<>>)

LongBoards ==
  {LongBoard(1, kind, n) : kind \in FieldKinds, n \in 1..FRU_FIELDMAXLEN}
  \cup {LongBoard(5, kind, FRU_FIELDMAXLEN) : kind \in FieldKinds}

\* areas with a list of a few equal custom fields, with a list of long ones
\* that fills about 256 blocks, with such a list followed by short fields,
\* and with a list that holds a node without rec
CustomAreas ==
  {Sparse(atype, SomeDate, Copies(f, n)) :
     atype \in GenericAreas, f \in CustTemplates, n \in 0..3}
  \cup
  {Sparse(atype, SomeDate, Copies(BinaryField, n)) :
     atype \in GenericAreas, n \in (MaxCust - 3)..MaxCust}
  \cup
  {Sparse(atype, SomeDate,
          Copies(BinaryField, MaxCust - 2) \o Copies(TextField, m)) :
     atype \in GenericAreas, m \in (MaxTail - 3)..MaxTail}
  \cup
  {Sparse(atype, SomeDate, <<TextField, NULL, TextField>>) :
     atype \in GenericAreas}

\* chassis types, languages, dates and forced field types
OtherAreas ==
  {Chassis(type, <<Auto(s1), Auto(s2)>>, <<>>) :
     type \in {0, 1, 23, 36, 37}, s1 \in ShortStrings, s2 \in ShortStrings}
  \cup
  {Board(lang, tv, [k \in 1..5 |-> Typed(type, <<49, 50>>)], <<TextField>>) :
     lang \in {LANG_DEFAULT, LANG_ENGLISH}, tv \in Dates, type \in FieldTypes}
  \cup
  {Product(lang, [k \in 1..7 |-> Typed(type, s)], <<TextField>>) :
     lang \in {LANG_DEFAULT, LANG_ENGLISH}, type \in FieldTypes,
     s \in ShortStrings}

\* areas whose first mandatory string holds a control byte
ControlAreas ==
  {Chassis(23, <<Auto(<<1, 171>>), Auto(<<97, 98>>)>>, <<f>>) :
     f \in {ShortBinary, TextField}}
  \cup
  {Board(LANG_ENGLISH, SomeDate,
         [k \in 1..5 |-> Auto(IF k = 1 THEN <<1, 171>> ELSE <<97, 98>>)],
         <<f>>) : f \in {ShortBinary, TextField}}

AreaInputs ==
  ShortBoards \cup LongBoards \cup CustomAreas \cup OtherAreas
  \cup ControlAreas

(***************************************************************************)
(* Operations of the area builder.  The exploded structure is drawn in the *)
(* initial state.                                                          *)
(***************************************************************************)
InitArea ==
  /\ op = "init"
  /\ autodetect = TRUE
  /\ CodecIdle
  /\ exploded \in AreaInputs
  /\ area = NoArea
  /\ parsed = NoParse
  /\ FileIdle
  /\ MrIdle
  /\ CliIdle
  /\ ReadIdle

\* what a call that wrote behind its buffer can come to: it returns, or the
\* process is killed
Outcomes(r) ==
  IF r.status = "ok" /\ r.overflow
  THEN {r, [r EXCEPT !.status = "crash"]}
  ELSE {r}

\* fru_encode_chassis_info / fru_encode_board_info / fru_product_info
EncodeArea ==
  /\ area' \in Outcomes(
       CASE exploded.atype = FRU_CHASSIS_INFO ->
              fru_encode_chassis_info(autodetect, exploded)
         [] exploded.atype = FRU_BOARD_INFO ->
              fru_encode_board_info(autodetect, exploded)
         [] OTHER -> fru_product_info(autodetect, exploded))
  /\ parsed' = NoParse
  /\ op' = "encode_area"
  /\ UNCHANGED <<autodetect, exploded>>
  /\ UNCHANGED <<codecVars, fileVars, mrVars, toolVars>>

\* the decoder that frugen.c calls for an area of type atype
DecodeInfo(atype, mem, order) ==
  CASE atype = FRU_CHASSIS_INFO -> fru_decode_chassis_info(mem, order)
    [] atype = FRU_BOARD_INFO -> fru_decode_board_info(mem, order)
    [] OTHER -> fru_decode_product_info(mem, order)

\* the bytes a field walk can meet in the place of the terminator: an empty
\* binary field and an empty text field
EmptyFields == {0, 192}

\* an area of a file that the lookup accepts: the bytes of a built area with
\* the byte at offset pos replaced by new, and the checksum made for them
StoredArea(bytes, pos, new) ==
  LET body == SubSeq([bytes EXCEPT ![pos + 1] = new], 1, Len(bytes) - 1)
  IN Append(body, calc_checksum(body))

\* the areas that the decoders are given: the area just built, and the areas
\* of a file that hold an empty field where the builder put a terminator
StoredAreas(a) ==
  {a.bytes} \cup
  IF a.overflow \/ Len(a.bytes) # FRU_BYTES(a.blocks) THEN {}
  ELSE {StoredArea(a.bytes, pos, new) :
          pos \in {p \in FRU_INFO_AREA_HEADER_SZ..(Len(a.bytes) - 2) :
                     ByteAt(a.bytes, p) = FRU_FIELD_TERMINATOR},
          new \in EmptyFields}

\* what a decoder call leaves: its result, or, when the walk left the area,
\* the end of the process as well (the walk reads what the memory behind the
\* area holds, here zeros, up to the end of the mapping)
ParseOutcomes(r) == IF r.oob THEN {r, NoParse} ELSE {r}

\* fru_decode_chassis_info / fru_decode_board_info / fru_decode_product_info
\* into a zero-initialised exploded structure, on the area just built
\* (decode_area) or on an area of a file (decode_stored)
DecodeArea ==
  /\ op = "encode_area"
  /\ area.status = "ok"
  /\ \E mem \in StoredAreas(area), order \in EvalOrders :
       /\ area' = [area EXCEPT !.bytes = mem]
       /\ parsed' \in ParseOutcomes(DecodeInfo(exploded.atype, mem, order))
  /\ op' = IF parsed' = NoParse THEN "crash"
           ELSE IF area' = area THEN "decode_area" ELSE "decode_stored"
  /\ UNCHANGED <<autodetect, exploded>>
  /\ UNCHANGED <<codecVars, fileVars, mrVars, toolVars>>

NextArea == SetAutodetect \/ EncodeArea \/ DecodeArea

SpecArea == InitArea /\ [][NextArea]_vars

(***************************************************************************)
(* Properties of the area builder                                          *)
(***************************************************************************)
\* C1: every area the builder returns sums to 0 modulo 256 over all of its
\* blocks * 8 bytes, the checksum byte included
C1_AreaSumZero ==
  (op = "encode_area" /\ area.status = "ok")
    => SumRange(area.bytes, 1, FRU_BYTES(area.blocks)) % 256 = 0

\* the five mandatory strings of an exploded board
BoardStrings(b) == <<b.mfg, b.pname, b.serial, b.pn, b.file>>

\* C10: when a board of five auto-typed strings was encoded and the area is
\* decoded (the 6-bit decoder reading its operand before the increment),
\* the decoder succeeds and returns each string in its own slot, trailing
\* spaces of BCD plus and 6-bit fields apart
C10_BoardRoundTrip ==
  (/\ op = "decode_area"
   /\ parsed.order = "read_first"
   /\ exploded.atype = FRU_BOARD_INFO
   /\ \A k \in 1..5 : BoardStrings(exploded)[k].type = FIELD_TYPE_AUTO)
    => /\ parsed.ok
       /\ \A k \in 1..5 :
            LET given == CStr(BoardStrings(exploded)[k].val)
                got == CStr(BoardStrings(parsed)[k].val)
            IN IF BoardStrings(parsed)[k].type = FIELD_TYPE_TEXT
               THEN got = given
               ELSE got = StripTrailing(given)

(***************************************************************************)
(* Inputs of fru_create                                                    *)
(***************************************************************************)
Slot(atype, blocks, data) == [atype |-> atype, blocks |-> blocks, data |-> data]

\* the array as frugen.c initialises it
NoAreas == [i \in 1..FRU_MAX_AREAS |-> Slot(i - 1, 0, NULL)]

\* an internal use area of one block as frugen.c builds it from JSON: the
\* version byte, then the data, here with the given first data byte
InternalArea(first) == <<FRU_VER_1, first, 170, 187, 0, 0, 0, 0>>

\* an internal use area of 255 blocks
BigInternalArea == <<FRU_VER_1, 170>> \o Zeros(FRU_BYTES(255) - 2)

\* the chassis area fru_encode_chassis_info builds for a rack mount chassis
\* (type 23) with part number "aa00x" and no serial number: two blocks
ChassisArea == <<1, 2, 23, 197, 97, 97, 48, 48, 120, 192, 193, 0, 0, 0, 0, 6>>

\* the board area fru_encode_board_info builds for the manufacturer "Acme"
\* and the product name "Widget" in English, date unspecified: three blocks
BoardArea ==
  <<1, 3, 25, 0, 0, 0, 196, 65, 99, 109, 101, 198, 87, 105, 100, 103, 101, 116,
    192, 192, 192, 193, 0, 126>>

\* the product area fru_product_info builds for the manufacturer "Acme" in
\* English: two blocks
ProductArea ==
  <<1, 2, 25, 196, 65, 99, 109, 101, 192, 192, 192, 192, 192, 192, 193, 105>>

\* a multirecord area of one block: one empty OEM record, end of list
MultirecordArea == <<192, 130, 0, 0, 190, 0, 0, 0>>

InternalSlots ==
  {Slot(FRU_INTERNAL_USE, 0, NULL),
   Slot(FRU_INTERNAL_USE, 1, InternalArea(170)),
   Slot(FRU_INTERNAL_USE, 1, InternalArea(0)),
   Slot(FRU_INTERNAL_USE, 0, InternalArea(170))}

ChassisSlots ==
  {Slot(FRU_CHASSIS_INFO, 0, NULL),
   Slot(FRU_CHASSIS_INFO, 0, ChassisArea),
   Slot(FRU_CHASSIS_INFO, 2, ChassisArea)}

BoardSlots == {Slot(FRU_BOARD_INFO, 0, NULL), Slot(FRU_BOARD_INFO, 0, BoardArea)}

ProductSlots ==
  {Slot(FRU_PRODUCT_INFO, 0, NULL), Slot(FRU_PRODUCT_INFO, 0, ProductArea)}

MultirecordSlots ==
  {Slot(FRU_MULTIRECORD, 0, NULL),
   Slot(FRU_MULTIRECORD, 1, MultirecordArea),
   Slot(FRU_MULTIRECORD, 0, MultirecordArea)}

\* arrays whose slots hold their own type
TypedArrays ==
  {<<int, ch, bd, Slot(FRU_PRODUCT_INFO, 0, NULL), mr>> :
     int \in InternalSlots, ch \in ChassisSlots, bd \in BoardSlots,
     mr \in MultirecordSlots}
  \cup
  {<<Slot(FRU_INTERNAL_USE, 0, NULL), ch, bd,
     Slot(FRU_PRODUCT_INFO, 0, ProductArea), mr>> :
     ch \in ChassisSlots, bd \in BoardSlots, mr \in MultirecordSlots}

OnlyBoard == [NoAreas EXCEPT ![FRU_BOARD_INFO + 1].data = BoardArea]

\* arrays with one slot of another type
MistypedArrays ==
  UNION {{[base EXCEPT ![i].atype = t] :
            base \in {NoAreas, OnlyBoard},
            t \in {FRU_AREA_NOT_PRESENT, FRU_MAX_AREAS, i % FRU_MAX_AREAS}} :
         i \in 1..FRU_MAX_AREAS}

\* a container of more than 255 blocks, a sized area whose own block count
\* is 0 with and without an explicit one, a block count without data
OddArrays ==
  {[NoAreas EXCEPT ![FRU_INTERNAL_USE + 1] =
                     Slot(FRU_INTERNAL_USE, 255, BigInternalArea),
                   ![FRU_CHASSIS_INFO + 1].data = ChassisArea],
   [OnlyBoard EXCEPT ![FRU_CHASSIS_INFO + 1] =
                       Slot(FRU_CHASSIS_INFO, 0, [ChassisArea EXCEPT ![2] = 0])],
   [OnlyBoard EXCEPT ![FRU_CHASSIS_INFO + 1] =
                       Slot(FRU_CHASSIS_INFO, 1, [ChassisArea EXCEPT ![2] = 0])],
   [OnlyBoard EXCEPT ![FRU_INTERNAL_USE + 1].blocks = 1]}

FileInputs == TypedArrays \cup MistypedArrays \cup OddArrays

\* the values a changed byte takes: one more, one less, all bits clear, all
\* bits set
TamperValues(old) == {U8(old + 1), U8(old + 255), 0, 255} \ {old}

\* the value of every byte behind the buffer, when one is read
JunkBytes == {0, 1, 255}

AreaNames == {"chassis", "board", "product"}

(***************************************************************************)
(* Operations on the container.  The array of areas is drawn in the        *)
(* initial state.                                                          *)
(***************************************************************************)
InitFile ==
  /\ op = "init"
  /\ autodetect = TRUE
  /\ CodecIdle
  /\ AreaIdle
  /\ areas \in FileInputs
  /\ fru = NoFru
  /\ buffer = <<>>
  /\ tampered = NoTamper
  /\ found = NoFound
  /\ MrIdle
  /\ CliIdle
  /\ ReadIdle

\* fru_t *fru_create(fru_area_t area[FRU_MAX_AREAS], size_t *size); the
\* buffer is what frugen.c writes to the file and a reader loads
CreateFru ==
  /\ op = "init"
  /\ \E r \in Outcomes(fru_create(areas)) :
       /\ fru' = r
       /\ areas' = r.area
       /\ buffer' = IF r.status = "ok" THEN r.bytes ELSE <<>>
  /\ tampered' = NoTamper
  /\ found' = NoFound
  /\ op' = "create"
  /\ UNCHANGED <<autodetect, codecVars, areaVars, mrVars, toolVars>>

\* one byte of an area that the lookup accepts takes another value
Tamper ==
  /\ op \in {"create", "find"}
  /\ tampered = NoTamper
  /\ Len(buffer) > 0
  /\ \E name \in AreaNames :
       LET was == find_fru_area(name, buffer, Len(buffer), 0) IN
       /\ was.status = "ok"
       /\ \E pos \in 0..(FRU_BYTES(was.blocks) - 1) :
            \E new \in TamperValues(buffer[was.at + pos + 1]) :
              /\ buffer' = [buffer EXCEPT ![was.at + pos + 1] = new]
              /\ tampered' = [name |-> name, pos |-> pos,
                              old |-> buffer[was.at + pos + 1], new |-> new]
  /\ found' = NoFound
  /\ op' = "tamper"
  /\ UNCHANGED <<autodetect, codecVars, areaVars, mrVars, toolVars, areas,
               fru>>

\* the file that frugen.c reads holds another value in one byte of its
\* common header
DamageHeader ==
  /\ op = "create"
  /\ Len(buffer) > 0
  /\ \E pos \in 0..(SIZEOF_FRU_T - 1) :
       \E new \in TamperValues(buffer[pos + 1]) :
         buffer' = [buffer EXCEPT ![pos + 1] = new]
  /\ found' = NoFound
  /\ op' = "damage"
  /\ UNCHANGED <<autodetect, codecVars, areaVars, mrVars, toolVars, areas, fru,
               tampered>>

\* find_fru_chassis_area / find_fru_board_area / find_fru_product_area on the
\* buffer; after a change the area that was changed is looked up
FindArea ==
  /\ op \in {"create", "tamper", "damage"}
  /\ Len(buffer) > 0
  /\ \E name \in AreaNames, junk \in JunkBytes :
       /\ tampered # NoTamper => name = tampered.name
       /\ found' = find_fru_area(name, buffer, Len(buffer), junk)
  /\ op' = "find"
  /\ UNCHANGED <<autodetect, codecVars, areaVars, mrVars, toolVars, areas,
               fru, buffer, tampered>>

NextFile == CreateFru \/ Tamper \/ DamageHeader \/ FindArea

SpecFile == InitFile /\ [][NextFile]_vars

(***************************************************************************)
(* Properties of the container                                             *)
(***************************************************************************)
\* C2: the 8 bytes at offset 0 of every buffer fru_create returns sum to 0
\* modulo 256
C2_HeaderSumZero ==
  (op = "create" /\ fru.status = "ok")
    => SumRange(fru.bytes, 1, SIZEOF_FRU_T) % 256 = 0

\* the block count of slot i (1-based) as the container description takes
\* it: explicit for internal use and multirecord, from the area header else
SlotBlocks(sl, i) ==
  IF sl[i].data = NULL THEN 0
  ELSE IF FRU_AREA_HAS_SIZE(i - 1) THEN ByteAt(sl[i].data, 1)
  ELSE sl[i].blocks

SlotPresent(sl, i) == SlotBlocks(sl, i) # 0

RECURSIVE BlocksBefore(_, _)
\* the block counts of the present slots before slot i
BlocksBefore(sl, i) ==
  IF i <= 1 THEN 0 ELSE BlocksBefore(sl, i - 1) + SlotBlocks(sl, i - 1)

\* C3: in a container fru_create returns, every present slot has header
\* offset 1 + the blocks of the present slots before it and its bytes stand
\* at 8 * offset, every absent slot has offset 0, and the size is 1 + the
\* blocks of all present slots
C3_OffsetsAndPlacement ==
  (op = "create" /\ fru.status = "ok")
    => /\ \A i \in 1..FRU_MAX_AREAS :
            IF SlotPresent(areas, i)
            THEN /\ fru.bytes[i + 1] = 1 + BlocksBefore(areas, i)
                 /\ SubSeq(fru.bytes, FRU_BYTES(fru.bytes[i + 1]) + 1,
                           FRU_BYTES(fru.bytes[i + 1] + SlotBlocks(areas, i)))
                      = SubSeq(areas[i].data, 1, FRU_BYTES(SlotBlocks(areas, i)))
            ELSE fru.bytes[i + 1] = 0
       /\ fru.size = 1 + BlocksBefore(areas, FRU_MAX_AREAS + 1)

C19_TypeCheck ==
  op = "create"
    => (fru.status = "null"
          <=> \E i \in 1..FRU_MAX_AREAS :
                areas[i].atype \notin {i - 1, FRU_AREA_NOT_PRESENT})

\* C29: a lookup of an area in a buffer of size bytes reads no byte at an
\* index of size or more, and an area with block count 0 is turned down
\* without a checksum being computed over it
C29_LookupStaysInBuffer ==
  op = "find" => /\ ~found.oob
                 /\ found.status # "crash"

\* C20: the lookup returns an area only if the buffer has at least 8 bytes,
\* the version nibble of the header is 1, its reserved nibble and pad byte
\* are 0 and its 8 bytes sum to 0 modulo 256, and in addition the offset of
\* the area is not 0, the version byte of the area is 1, 8 * offset +
\* 8 * blocks is at most the size and the blocks * 8 bytes of the area sum
\* to 0 modulo 256
C20_FoundOnlyIfValid ==
  (op = "find" /\ found.status = "ok")
    => LET hdr == buffer[area_offsets(HeaderField(found.name)) + 1]
           size == Len(buffer)
       IN /\ size >= 8
          /\ buffer[1] % 16 = 1
          /\ buffer[1] \div 16 = 0
          /\ buffer[7] = 0
          /\ SumRange(buffer, 1, 8) % 256 = 0
          /\ hdr # 0
          /\ found.at = 8 * hdr
          /\ 8 * hdr + 8 * found.blocks <= size
          /\ buffer[8 * hdr + 1] = 1
          /\ buffer[8 * hdr + 2] = found.blocks
          /\ SumRange(buffer, 8 * hdr + 1, 8 * hdr + 8 * found.blocks) % 256 = 0

\* an area behind another area was looked up and returned
C20_Witness ==
  /\ op = "find"
  /\ found.status = "ok"
  /\ found.at > FRU_BYTES(1)
  /\ tampered = NoTamper

(***************************************************************************)
(* Properties of the area decoders                                         *)
(***************************************************************************)
\* C17: the field walk of an area decoder never reads behind the blocks * 8
\* bytes of the area; an area in which the walk finds no terminator makes
\* the decoder fail
C17_WalkStaysInArea ==
  /\ op \in {"decode_area", "decode_stored"} => ~parsed.oob
  /\ op # "crash"

\* the mandatory strings of an exploded area in the order of its kind
MandatoryStrings(e) ==
  CASE e.atype = FRU_CHASSIS_INFO -> <<e.pn, e.serial>>
    [] e.atype = FRU_BOARD_INFO -> <<e.mfg, e.pname, e.serial, e.pn, e.file>>
    [] OTHER -> <<e.mfg, e.pname, e.pn, e.ver, e.serial, e.atag, e.file>>

\* the encoded fields that an exploded area asks for: the mandatory ones,
\* then the custom ones in the order of the list
ExpectedFields(ad, e) ==
  LET strs == MandatoryStrings(e)
      mandatory == [m \in 1..Len(strs) |-> MandatoryField(ad, strs[m])]
  IN [m \in 1..Len(strs) |-> FieldBytes(mandatory[m])]
     \o [c \in 1..Len(e.cust) |-> FieldBytes(e.cust[c])]

HeaderSize(e) ==
  IF e.atype = FRU_BOARD_INFO THEN FRU_DATE_AREA_HEADER_SZ
  ELSE FRU_INFO_AREA_HEADER_SZ

RECURSIVE FieldsBeforeTerminator(_, _)
\* the number of fields a walk from offset off passes before it stands on a
\* terminator; -1 when it leaves mem
FieldsBeforeTerminator(mem, off) ==
  IF off >= Len(mem) THEN -1
  ELSE IF mem[off + 1] = FRU_FIELD_TERMINATOR THEN 0
  ELSE LET rest == FieldsBeforeTerminator(mem, off + 1 + (mem[off + 1] % 64))
       IN IF rest < 0 THEN -1 ELSE rest + 1

\* C24: a built area whose custom list holds a field in every node and whose
\* total size fits in 255 blocks is the header with version 1 and the block
\* count ceil((header + field sizes + 2) / 8), the mandatory fields in the
\* order of the kind, the custom fields in list order, the terminator, zero
\* bytes and the checksum in the last byte; a walk from the end of the
\* header passes exactly these fields before the terminator
C24_AreaLayout ==
  (/\ op = "encode_area" /\ area.status = "ok"
   /\ \A k \in 1..Len(exploded.cust) : exploded.cust[k] # NULL)
    => LET fields == Concat(ExpectedFields(autodetect, exploded))
           hl == HeaderSize(exploded)
           total == hl + Len(fields) + 2
           blocks == CeilDiv(total, FRU_BLOCK_SZ)
           b == area.bytes
       IN blocks <= 255
            => /\ Len(b) = blocks * FRU_BLOCK_SZ
               /\ b[1] = 1 /\ b[2] = blocks
               /\ SubSeq(b, hl + 1, hl + Len(fields)) = fields
               /\ b[total - 1] = FRU_FIELD_TERMINATOR
               /\ \A k \in total..(Len(b) - 1) : b[k] = 0
               /\ SumRange(b, 1, Len(b)) % 256 = 0
               /\ FieldsBeforeTerminator(b, hl)
                    = Len(ExpectedFields(autodetect, exploded))

\* an area with long custom fields followed by short ones was built
C24_Witness ==
  /\ op = "encode_area"
  /\ area.status = "ok"
  /\ ~area.overflow
  /\ Len(exploded.cust) > MaxCust - 2
  /\ exploded.cust[1] = BinaryField
  /\ exploded.cust[Len(exploded.cust)] = TextField
  /\ FieldsBeforeTerminator(area.bytes, HeaderSize(exploded))
       > Len(exploded.cust)

\* C25: for a board built with a timestamp t at or after the base, the
\* three date bytes are floor((t - base) / 60) in little-endian order and
\* the decoder returns base + 60 * floor((t - base) / 60); for the zero
\* timestamp the three bytes are 0
C25_DateMinutes ==
  (/\ op \in {"encode_area", "decode_area"}
   /\ area.status = "ok"
   /\ exploded.atype = FRU_BOARD_INFO)
    => LET minutes == (exploded.tv - fru_datetime_base) \div 60
           stored == area.bytes[4] + 256 * area.bytes[5]
                     + 65536 * area.bytes[6]
       IN /\ exploded.tv >= fru_datetime_base => stored = minutes
          /\ exploded.tv = 0 => stored = 0
          /\ (op = "decode_area" /\ exploded.tv >= fru_datetime_base)
               => parsed.tv = fru_datetime_base + 60 * minutes

\* "0123456789ABCDEF"
HexDigits == <<48, 49, 50, 51, 52, 53, 54, 55, 56, 57, 65, 66, 67, 68, 69, 70>>

\* the hexadecimal text of the payload of a binary field, high nibble first
HexText(f) ==
  [j \in 1..(2 * (f[1] % 64)) |->
     HexDigits[(IF j % 2 = 1 THEN f[1 + (j + 1) \div 2] \div 16
                ELSE f[1 + (j + 1) \div 2] % 16) + 1]]

\* C26: a custom binary field of n payload bytes is decoded into the 63 data
\* bytes of its node as a NUL-terminated string of 2n uppercase hexadecimal
\* characters when 63 >= 2n + 1, written below index 63 only; when
\* 63 < 2n + 1 nothing is written
C26_HexDump ==
  (/\ op = "decode_area" /\ parsed.ok
   /\ \A k \in 1..Len(exploded.cust) : exploded.cust[k] # NULL
   /\ Len(parsed.cust) = Len(exploded.cust))
    => \A k \in 1..Len(parsed.cust) :
         LET f == exploded.cust[k]
             n == f[1] % 64
             got == parsed.cust[k]
         IN f[1] \div 64 = TYPE_BINARY
              => IF FRU_FIELDMAXLEN >= 2 * n + 1
                 THEN /\ CStr(got.data) = HexText(f)
                      /\ ~got.overflow
                 ELSE /\ got.data = Zeros(FRU_FIELDMAXLEN)
                      /\ ~got.overflow

\* the field type under which a field with the given type code is reported
TagType(code) ==
  CASE code = TYPE_BINARY -> FIELD_TYPE_BINARY
    [] code = TYPE_BCDPLUS -> FIELD_TYPE_BCDPLUS
    [] code = TYPE_ASCII_6BIT -> FIELD_TYPE_SIXBITASCII
    [] OTHER -> FIELD_TYPE_TEXT

\* C27: in a decoded area every mandatory field is reported with the type of
\* its own tag and every custom field keeps its tag; a binary field,
\* mandatory or custom, is rendered as the hexadecimal text of its bytes
C27_OwnDecodePath ==
  (/\ op = "decode_area" /\ parsed.ok
   /\ \A k \in 1..Len(exploded.cust) : exploded.cust[k] # NULL
   /\ Len(parsed.cust) = Len(exploded.cust))
    => LET fields == ExpectedFields(autodetect, exploded)
           slots == MandatoryStrings([atype |-> exploded.atype] @@ parsed)
       IN /\ \A k \in 1..Len(slots) :
               LET f == fields[k]
               IN /\ slots[k].type = TagType(f[1] \div 64)
                  /\ f[1] \div 64 = TYPE_BINARY
                       => CStr(slots[k].val) = HexText(f)
          /\ \A k \in 1..Len(parsed.cust) :
               LET f == fields[Len(slots) + k]
                   got == parsed.cust[k]
               IN /\ got.typelen = f[1]
                  /\ (f[1] \div 64 = TYPE_BINARY /\ f[1] % 64 < 32)
                       => CStr(got.data) = HexText(f)

\* C28: the area builder fails, or it returns an area whose block count
\* times 8 is at least the header, the fields, the terminator and the
\* checksum, and nothing was written behind these bytes
C28_BlocksHoldArea ==
  (/\ op = "encode_area" /\ area # NoArea
   /\ \A k \in 1..Len(exploded.cust) : exploded.cust[k] # NULL)
    => /\ area.status = "ok"
       /\ FRU_BYTES(area.blocks)
            >= HeaderSize(exploded)
               + Len(Concat(ExpectedFields(autodetect, exploded))) + 2
       /\ Len(area.bytes) = FRU_BYTES(area.blocks)
       /\ ~area.overflow

\* C18: when the decoder of a built area reports success, no field of the
\* area that holds payload bytes was left empty in its destination
C18_NoFieldLeftEmpty ==
  (op = "decode_area" /\ parsed.ok)
    => \A k \in 1..Len(parsed.cust) :
         FRU_FIELDDATALEN(parsed.cust[k].typelen) > 0
           => parsed.cust[k].data # Zeros(FRU_FIELDMAXLEN)

(***************************************************************************)
(* Properties of the field encoder: lengths                                *)
(***************************************************************************)
\* the payload bytes that n characters need in the encoding of type t
PayloadFor(t, n) ==
  CASE t = TYPE_BCDPLUS -> CeilDiv(n, 2)
    [] t = TYPE_ASCII_6BIT -> CeilDiv(3 * n, 4)
    [] OTHER -> n

\* the type that a length code asks for; for LEN_AUTO the narrowest type
\* that holds the string when types are detected, Text when they are not
ChosenType(ad, len, s) ==
  CASE len > 0 -> TYPE_BINARY
    [] len = LEN_BCDPLUS -> TYPE_BCDPLUS
    [] len = LEN_6BITASCII -> TYPE_ASCII_6BIT
    [] len = LEN_TEXT -> TYPE_TEXT
    [] OTHER -> IF HasControlByte(s) THEN TYPE_BINARY
                ELSE IF ad /\ AllIn(s, BcdPlusSet) THEN TYPE_BCDPLUS
                ELSE IF ad /\ AllIn(s, SixBitSet) THEN TYPE_ASCII_6BIT
                ELSE TYPE_TEXT

KnownLenCode(len) ==
  len > 0 \/ len \in {LEN_AUTO, LEN_BCDPLUS, LEN_6BITASCII, LEN_TEXT}

\* C14: for every length code, fru_encode_data returns NULL when the payload
\* that the chosen encoding needs for the whole input is over 63 bytes, and
\* the length bits of a field it returns cover the whole input
C14_TooLongFails ==
  (op = "encode" /\ in_data # NullData /\ KnownLenCode(in_len))
    => /\ PayloadFor(ChosenType(autodetect, in_len, in_data), Len(in_data))
            > FRU_FIELDMAXLEN
          => field = NULL
       /\ field # NULL
          => FRU_FIELDDATALEN(TypelenOf(field))
               = PayloadFor(FRU_TYPE(TypelenOf(field)), Len(in_data))

\* C15: fru_encode_data succeeds for every string of 1..63 bytes under
\* LEN_AUTO, autodetection on or off, and under LEN_TEXT
C15_ShortStringsEncode ==
  (/\ op = "encode" /\ in_data # NullData
   /\ in_len \in {LEN_AUTO, LEN_TEXT}
   /\ Len(in_data) \in 1..FRU_FIELDMAXLEN)
    => field # NULL /\ typelen # FRU_FIELD_TERMINATOR

MaxRecs == 2

\* the character of the hexadecimal digit v, capital (first = 65) or small
\* (first = 97)
DigitChar(v, first) == IF v < 10 THEN 48 + v ELSE first + (v - 10)

\* "0123456789ABCDEF0123456789ABCDEF"
UpperDigits == SubSeq([k \in 1..32 |-> DigitChar((k - 1) % 16, 65)], 1, 32)

\* "fedcba9876543210fedcba9876543210"
LowerDigits ==
  SubSeq([k \in 1..32 |-> DigitChar(15 - ((k - 1) % 16), 97)], 1, 32)

\* the digits d with dashes after the 8th, 12th, 16th and 20th
Dashed(d) ==
  SubSeq(d, 1, 8) \o <<DASH>> \o SubSeq(d, 9, 12) \o <<DASH>>
    \o SubSeq(d, 13, 16) \o <<DASH>> \o SubSeq(d, 17, 20) \o <<DASH>>
    \o SubSeq(d, 21, Len(d))

\* 32 hexadecimal digits, alone or with the 4 dashes
ValidUuids ==
  {UpperDigits, LowerDigits, Dashed(UpperDigits), Dashed(LowerDigits)}

\* strings of another length, with a character that is no digit, with 36
\* digits, with 28 digits and 4 dashes, with 31 digits and 5 dashes, with the
\* 4 dashes in front, of 32 dashes
OtherUuids ==
  {<<>>,
   [k \in 1..UUID_STRLEN_NONDASHED |-> DASH],
   SubSeq(UpperDigits, 1, 31),
   SubSeq(Dashed(UpperDigits), 1, 35),
   [UpperDigits EXCEPT ![6] = 103],
   [Dashed(LowerDigits) EXCEPT ![36] = 71],
   UpperDigits \o SubSeq(LowerDigits, 1, 4),
   Dashed(SubSeq(UpperDigits, 1, 28)),
   Dashed(SubSeq(UpperDigits, 1, 31)) \o <<DASH>>,
   <<DASH, DASH, DASH, DASH>> \o LowerDigits}

UuidInputs == ValidUuids \cup OtherUuids

(***************************************************************************)
(* Operations on the multirecord list (frugen.c: one node and one          *)
(* fru_mr_uuid2rec call per --mr-uuid option, then fru_mr_area)            *)
(***************************************************************************)
InitMr ==
  /\ op = "init"
  /\ autodetect = TRUE
  /\ CodecIdle
  /\ AreaIdle
  /\ FileIdle
  /\ MrIdle
  /\ CliIdle
  /\ ReadIdle

\* what a call that wrote behind uuid.raw can come to: it returns the record,
\* it returns -EINVAL (the loop ran on overwritten locals), or the process is
\* killed
MrOutcomes(r) ==
  IF r.overflow
  THEN {r, [r EXCEPT !.status = "einval", !.rec = NULL],
        [r EXCEPT !.status = "crash", !.rec = NULL]}
  ELSE {r}

\* add_mr_reclist(&mr_reclist), then fru_mr_uuid2rec(&mr_reclist_tail->rec, str)
Uuid2Rec ==
  /\ op \in {"init", "uuid2rec"}
  /\ Len(mr_reclist) < MaxRecs
  /\ \E str \in UuidInputs, junk \in JunkBytes :
       \E r \in MrOutcomes(fru_mr_uuid2rec(uuid_i, str, junk)) :
         /\ mr_call' = [str |-> str, i |-> uuid_i, junk |-> junk,
                        status |-> r.status, rec |-> r.rec,
                        overflow |-> r.overflow]
         /\ uuid_i' = r.i
         /\ mr_reclist' = Append(mr_reclist, r.rec)
         /\ op' = IF r.status = "crash" THEN "crash" ELSE "uuid2rec"
  /\ mr_area' = NoMrArea
  /\ UNCHANGED <<autodetect, codecVars, areaVars, fileVars, toolVars>>

\* fru_mr_area(mr_reclist, &totalbytes) with totalbytes = 0
MrArea ==
  /\ op = "uuid2rec"
  /\ \E calloc_null \in BOOLEAN :
       mr_area' = fru_mr_area(mr_reclist, 0, calloc_null)
  /\ op' = "mr_area"
  /\ UNCHANGED <<autodetect, codecVars, areaVars, fileVars, toolVars, uuid_i,
                 mr_reclist, mr_call>>

NextMr == Uuid2Rec \/ MrArea

SpecMr == InitMr /\ [][NextMr]_vars

(***************************************************************************)
(* Properties of the multirecord area                                      *)
(***************************************************************************)
\* the value of the hexadecimal digit c as it is written
DigitValue(c) ==
  CHOOSE v \in 0..15 : DigitChar(v, 65) = c \/ DigitChar(v, 97) = c

IsHexDigit(c) == \E v \in 0..15 : DigitChar(v, 65) = c \/ DigitChar(v, 97) = c

NoDashes(str) == SelectSeq(str, LAMBDA c : c # DASH)

\* byte k (0..15) of the UUID in the order of the text
TextByte(str, k) ==
  DigitValue(NoDashes(str)[2 * k + 1]) * 16 + DigitValue(NoDashes(str)[2 * k + 2])

\* the 16 UUID bytes of the claim: bytes 0-3 reversed, 4-5 and 6-7 swapped,
\* 8-15 in the order of the text
ExpectedUuid(str) ==
  [k \in 1..UUID_SIZE |->
     TextByte(str, CASE k <= 4 -> 4 - k
                     [] k \in {5, 7} -> k
                     [] k \in {6, 8} -> k - 2
                     [] OTHER -> k - 1)]

\* the payload of a record: the bytes behind the header
MrPayload(rec) == SubSeq(rec, SIZEOF_FRU_MR_HEADER_T + 1, Len(rec))

\* C11: the first fru_mr_uuid2rec call of a process on a valid UUID string
\* gives a payload of 17 bytes, the subtype 0x07 and the 16 UUID bytes with
\* bytes 0-3 reversed, 4-5 and 6-7 swapped and 8-15 in the order of the text
C11_UuidByteOrder ==
  (op = "uuid2rec" /\ mr_call.i = 0 /\ mr_call.str \in ValidUuids)
    => /\ mr_call.status = "ok"
       /\ MrLen(mr_call.rec) = UUID_SIZE + 1
       /\ MrPayload(mr_call.rec)
            = <<FRU_MR_MGMT_SYS_UUID>> \o ExpectedUuid(mr_call.str)

\* "01234567-89AB-CDEF-0123-456789ABCDEF" was converted by the first call and
\* the UUID begins with 67 45 23 01
C11_Witness ==
  /\ op = "uuid2rec"
  /\ mr_call.i = 0
  /\ mr_call.str = Dashed(UpperDigits)
  /\ mr_call.status = "ok"
  /\ SubSeq(MrPayload(mr_call.rec), 2, 5) = <<103, 69, 35, 1>>

\* 32 hexadecimal digits, alone or with exactly 4 dashes
WellFormedUuid(str) ==
  /\ \A k \in 1..Len(str) : str[k] = DASH \/ IsHexDigit(str[k])
  /\ Len(NoDashes(str)) = UUID_STRLEN_NONDASHED
  /\ Len(str) \in {UUID_STRLEN_NONDASHED, UUID_STRLEN_DASHED}

\* C12: the first fru_mr_uuid2rec call of a process succeeds only for a
\* string of exactly 32 hexadecimal digits, alone or with exactly 4 dashes;
\* for every other string it returns -EINVAL and leaves *rec NULL
C12_UuidFormat ==
  (op \in {"uuid2rec", "crash"} /\ mr_call.i = 0)
    => IF WellFormedUuid(mr_call.str)
       THEN mr_call.status = "ok"
       ELSE mr_call.status = "einval" /\ mr_call.rec = NULL

\* C13: after any earlier calls, fru_mr_uuid2rec on a valid UUID string gives
\* the record a first call gives, and writes the 16 bytes of uuid.raw only
C13_UuidNoMemory ==
  (op \in {"uuid2rec", "crash"} /\ mr_call.str \in ValidUuids)
    => /\ mr_call.status = "ok"
       /\ mr_call.rec = fru_mr_uuid2rec(0, mr_call.str, mr_call.junk).rec
       /\ ~mr_call.overflow

\* the byte offset in the area of the record of node k (1-based)
MrOffset(reclist, k) ==
  SumRange([n \in 1..Len(reclist) |-> Len(reclist[n])], 1, k - 1)

\* the record of node k as it stands in the area
MrInArea(k) ==
  SubSeq(mr_area.bytes, MrOffset(mr_reclist, k) + 1,
         MrOffset(mr_reclist, k + 1))

\* every node of the list holds a record
FullChain ==
  /\ Len(mr_reclist) >= 1
  /\ \A k \in 1..Len(mr_reclist) : mr_reclist[k] # NULL

\* C16: for a chain of records, fru_mr_area returns the records in the order
\* of the chain, total is the sum of 5 + payload length, the end-of-list bit
\* is set in the last record only, and the five header bytes of every record
\* of the area sum to 0 modulo 256
C16_MrAreaChain ==
  (op = "mr_area" /\ FullChain)
    => /\ mr_area.status = "ok"
       /\ mr_area.total = MrOffset(mr_reclist, Len(mr_reclist) + 1)
       /\ Len(mr_area.bytes) = mr_area.total
       /\ \A k \in 1..Len(mr_reclist) :
            LET rec == MrInArea(k) IN
            /\ rec[1] = mr_reclist[k][1]
            /\ rec[2] % FRU_MR_EOL = mr_reclist[k][2] % FRU_MR_EOL
            /\ rec[3] = mr_reclist[k][3]
            /\ rec[4] = mr_reclist[k][4]
            /\ MrPayload(rec) = MrPayload(mr_reclist[k])
            /\ Len(rec) = SIZEOF_FRU_MR_HEADER_T + rec[3]
            /\ (rec[2] >= FRU_MR_EOL) <=> (k = Len(mr_reclist))
            /\ SumRange(rec, 1, SIZEOF_FRU_MR_HEADER_T) % 256 = 0

\* an area was built from a chain of two records that two calls returned
\* without a write behind uuid.raw
C16_Witness ==
  /\ op = "mr_area"
  /\ Len(mr_reclist) = 2
  /\ FullChain
  /\ uuid_i <= UUID_STRLEN_NONDASHED
  /\ mr_area.status = "ok"
  /\ mr_area.total = 2 * (SIZEOF_FRU_MR_HEADER_T + UUID_SIZE + 1)

(***************************************************************************)
(* frugen.c, main: the option loop and the board date.  An option is a     *)
(* record with the letter getopt_long returns for it and its argument.     *)
(***************************************************************************)
MaxArgs == 3

\* tv_sec that gettimeofday gives, the timezone added: a day in 2026
NowTime == fru_datetime_base + 60 * 16000000

\* tv_sec of the date strings and of the dates in files
ArgDate == fru_datetime_base + 60 * 1440
FileDate == fru_datetime_base + 60 * 2880

\* files for --from: a JSON text with a board section with and without
\* 'date', and a binary FRU file with a board area
JsonDated == [kind |-> "json", date |-> FileDate]
JsonBoard == [kind |-> "json", date |-> 0]
RawBoard == [kind |-> "fru", date |-> FileDate]

\* --json, --raw, --from <file>, --board-date <string>, --board-date-unspec,
\* --board-pname <string>; a date string is well-formed (tv is what
\* datestr_to_tv stores for it) or not
Options ==
  {[opt |-> "j"], [opt |-> "r"], [opt |-> "u"], [opt |-> "n"],
   [opt |-> "d", valid |-> TRUE, tv |-> ArgDate],
   [opt |-> "d", valid |-> FALSE, tv |-> 0]}
  \cup {[opt |-> "z", file |-> f] : f \in {JsonDated, JsonBoard, RawBoard}}

CommandLines == UNION {[1..n -> Options] : n \in 0..MaxArgs}

\* main up to the option loop
InitCli ==
  /\ op = "init"
  /\ autodetect = TRUE
  /\ CodecIdle
  /\ AreaIdle
  /\ FileIdle
  /\ MrIdle
  /\ ReadIdle
  /\ \E argv \in CommandLines :
       cli = [pc |-> "options", argv |-> argv, optind |-> 1,
              use_json |-> FALSE, use_binary |-> FALSE,
              no_curr_date |-> FALSE, has_board |-> FALSE,
              has_bdate |-> FALSE, tv |-> NowTime,
              loaded |-> "none", written |-> -1]

Fatal(c) == [c EXCEPT !.pc = "fatal"]

\* case 'z' with the file f
LoadFrom(c, f) ==
  IF c.use_json
  THEN IF f.kind # "json" THEN Fatal(c)
       ELSE IF f.date # 0
       THEN [c EXCEPT !.tv = f.date, !.has_board = TRUE, !.has_bdate = TRUE,
                      !.loaded = "json"]
       ELSE [c EXCEPT !.has_board = TRUE, !.loaded = "json"]
  ELSE IF c.use_binary
  THEN IF f.kind # "fru" THEN [c EXCEPT !.loaded = "binary"]
       ELSE [c EXCEPT !.tv = f.date, !.has_board = TRUE,
                      !.loaded = "binary"]
  ELSE Fatal(c)

\* the switch of the option loop for the option o
OptionCase(c, o) ==
  CASE o.opt = "j" ->
         IF c.use_binary THEN Fatal([c EXCEPT !.use_json = TRUE])
         ELSE [c EXCEPT !.use_json = TRUE]
    [] o.opt = "r" ->
         IF c.use_json THEN Fatal([c EXCEPT !.use_binary = TRUE])
         ELSE [c EXCEPT !.use_binary = TRUE]
    [] o.opt = "z" -> LoadFrom(c, o.file)
    [] o.opt = "n" -> [c EXCEPT !.has_board = TRUE]
    [] o.opt = "d" ->
         IF ~o.valid THEN Fatal(c)
         ELSE [c EXCEPT !.tv = o.tv, !.has_board = TRUE]
    [] OTHER -> [c EXCEPT !.no_curr_date = TRUE]

\* one pass of the do-while loop: getopt_long and the switch
GetOpt ==
  /\ cli.pc = "options"
  /\ cli.optind <= Len(cli.argv)
  /\ cli' = [OptionCase(cli, cli.argv[cli.optind])
               EXCEPT !.optind = cli.optind + 1]
  /\ op' = "getopt"
  /\ UNCHANGED <<autodetect, codecVars, areaVars, fileVars, mrVars, rd>>

\* getopt_long returned -1: the dump of a binary file, or the areas of the
\* file to write; written is the tv_sec handed to fru_encode_board_info
BuildAreas ==
  /\ cli.pc = "options"
  /\ cli.optind > Len(cli.argv)
  /\ cli' = IF cli.use_binary THEN [cli EXCEPT !.pc = "dumped"]
            ELSE IF ~cli.has_board THEN [cli EXCEPT !.pc = "written"]
            ELSE IF ~cli.has_bdate /\ cli.no_curr_date
            THEN [cli EXCEPT !.pc = "written", !.tv = 0, !.written = 0]
            ELSE [cli EXCEPT !.pc = "written", !.written = cli.tv]
  /\ op' = "build"
  /\ UNCHANGED <<autodetect, codecVars, areaVars, fileVars, mrVars, rd>>

NextCli == GetOpt \/ BuildAreas

SpecCli == InitCli /\ [][NextCli]_vars

\* the options of argv before position k
Before(argv, k) == SubSeq(argv, 1, k - 1)

HasOpt(argv, o) == \E k \in 1..Len(argv) : argv[k].opt = o

\* the positions of argv that give a board date: --board-date, and --from
\* of a JSON text with a 'date' when JSON is the format in effect
DatePositions(argv) ==
  {k \in 1..Len(argv) :
     \/ argv[k].opt = "d"
     \/ /\ argv[k].opt = "z"
        /\ argv[k].file.kind = "json"
        /\ argv[k].file.date # 0
        /\ ~HasOpt(Before(argv, k), "r")}

Max(S) == CHOOSE m \in S : \A n \in S : n <= m

\* the date the last of these options gives
GivenDate(argv) ==
  LET o == argv[Max(DatePositions(argv))]
  IN IF o.opt = "d" THEN o.tv ELSE o.file.date

\* C21: the board date written is the date given by --board-date or by the
\* 'date' of the JSON text when one was given, otherwise unspecified when
\* --board-date-unspec was given, otherwise the current time
C21_BoardDate ==
  (cli.pc = "written" /\ cli.has_board /\ ~HasOpt(cli.argv, "r"))
    => cli.written =
         IF DatePositions(cli.argv) # {} THEN GivenDate(cli.argv)
         ELSE IF HasOpt(cli.argv, "u") THEN 0
         ELSE NowTime

\* C22: --from with neither --json nor --raw before it loads the file as
\* JSON, and --json and --raw are never both in effect
C22_JsonIsDefault ==
  /\ cli.pc \notin {"none", "fatal"} => ~(cli.use_json /\ cli.use_binary)
  /\ (/\ op = "getopt"
      /\ cli.argv[cli.optind - 1].opt = "z"
      /\ cli.argv[cli.optind - 1].file.kind = "json"
      /\ ~HasOpt(Before(cli.argv, cli.optind - 1), "j")
      /\ ~HasOpt(Before(cli.argv, cli.optind - 1), "r"))
       => cli.pc = "options" /\ cli.loaded = "json"

(***************************************************************************)
(* fru_reader.c, safe_read.  The file behind fd holds avail more bytes     *)
(* before its end; fails_in is the number of read() calls from now on      *)
(* after which read() returns -1, or -1 if it never does.                  *)
(***************************************************************************)
MaxRead == 4
MaxAvail == 5
MaxFails == 3

Min(a, b) == IF a < b THEN a ELSE b

\* a call safe_read(fd, buffer, length) before its first statement
InitRead ==
  /\ op = "init"
  /\ autodetect = TRUE
  /\ CodecIdle
  /\ AreaIdle
  /\ FileIdle
  /\ MrIdle
  /\ CliIdle
  /\ \E length \in 0..MaxRead, avail \in 0..MaxAvail,
        fails_in \in -1..MaxFails :
       rd = [pc |-> "call", length |-> length, total_bytes_read |-> 0,
             avail |-> avail, fails_in |-> fails_in]

\* size_t total_bytes_read = 0
SafeReadEnter ==
  /\ rd.pc = "call"
  /\ rd' = [rd EXCEPT !.pc = "while", !.total_bytes_read = 0]
  /\ op' = "safe_read"
  /\ UNCHANGED <<autodetect, codecVars, areaVars, fileVars, mrVars, cli>>

\* while (total_bytes_read != length)
SafeReadTest ==
  /\ rd.pc = "while"
  /\ rd' = [rd EXCEPT !.pc = IF rd.total_bytes_read = rd.length
                             THEN "return" ELSE "read"]
  /\ op' = "safe_read"
  /\ UNCHANGED <<autodetect, codecVars, areaVars, fileVars, mrVars, cli>>

\* one pass of the loop body; read() returns -1, or 0 at the end of the
\* file, or any number of bytes from 1 up to what was asked for and is
\* there.  A pass in which read() returns 0 changes nothing but the position.
SafeReadLoop ==
  /\ rd.pc = "read"
  /\ IF rd.fails_in = 0
     THEN rd' = [rd EXCEPT !.pc = "fatal"]
     ELSE \E bytes_read \in
               (IF rd.avail = 0 THEN {0}
                ELSE 1..Min(rd.length - rd.total_bytes_read, rd.avail)) :
            rd' = [rd EXCEPT
                     !.pc = "while",
                     !.total_bytes_read = @ + bytes_read,
                     !.avail = @ - bytes_read,
                     !.fails_in = IF @ > 0 THEN @ - 1 ELSE @]
  /\ op' = "read"
  /\ UNCHANGED <<autodetect, codecVars, areaVars, fileVars, mrVars, cli>>

NextRead == SafeReadEnter \/ SafeReadTest \/ SafeReadLoop

SpecRead == InitRead /\ [][NextRead]_vars

\* the process keeps running: a step of safe_read that can be taken is taken
FairRead == SpecRead /\ WF_vars(NextRead)

\* C30: every call of safe_read comes to an end, by its return or by fatal
C30_SafeReadEnds == <>(rd.pc \in {"return", "fatal"})

====
